---- MODULE Spec2Model ----
(***************************************************************************)
(* A model of the travel-information application: the upstream tourism     *)
(* client with its retry wrapper, pagination and coordinate conversion     *)
(* (tour-api.ts), the pet-accommodation heuristic and list filter          *)
(* (pet-filter.ts), the statistics aggregator (stats-api.ts), the listing  *)
(* orchestrator (the home page.tsx), the bookmark store (supabase-api.ts), *)
(* the bookmark button (bookmark-button.tsx), the URL-driven controls      *)
(* (tour-filters.tsx, tour-search.tsx, tour-pagination.tsx) and the map    *)
(* (naver-map.tsx): its marker loop and its one-time initialisation.       *)
(*                                                                         *)
(* Texts are sequences of one-character tokens.  Hangul syllables are      *)
(* written in romanised form, one token per syllable ("bul","ga" for the   *)
(* two syllables of the keyword meaning "not possible").                   *)
(***************************************************************************)
EXTENDS Integers, Sequences, FiniteSets, TLC

VARIABLES
    \* ---- upstream client (withRetry around one operation) ----
    op,         \* the client operation being run
    apiKey,     \* TRUE iff TOUR_API_KEY / NEXT_PUBLIC_TOUR_API_KEY is set
    pc,         \* position of withRetry: "call", "backoff", "done"
    attempt,    \* the loop variable of withRetry
    calls,      \* number of times fn() was invoked
    fetches,    \* number of fetch() calls issued
    lastResp,   \* the upstream response seen by the latest invocation of fn()
    waits,      \* the backoff delays slept so far
    lastError,  \* withRetry's lastError
    outcome,    \* what the operation gave its caller
    \* ---- pet-accommodation heuristic ----
    petInput,   \* the PetTourInfo record under evaluation
    petPc,      \* "input", "evaluated"
    petResult,  \* the value of isPetAllowed(petInput)
    \* ---- statistics aggregator ----
    sPc,        \* position of getStatsSummaryInternal
    axis,       \* per axis: position, area list, pending queries, sums
    sSummary,   \* the summary returned (or the error thrown)
    \* ---- listing orchestrator (Home): the listing stage ----
    hVariant,   \* which copy of the home page runs: "batched" or "parallel"
    hPc,        \* position of Home
    hParams,    \* URL-derived filter state
    hAreas,     \* number of area codes returned by getAreaCode
    hNext,      \* the loop variable i of the batch loop
    hPending,   \* regions whose listing request is in flight
    hResults,   \* per region: the settled result of its request
    hFailed,    \* regions whose listing request failed
    hEarly,     \* TRUE iff a request was issued before the batch before it had
                \* settled and the inter-batch delay had elapsed
    hTour,      \* tourData and error
    \* ---- listing orchestrator (Home): pet data of one listed item ----
    rCtx,       \* variant, keyword, petAllowed, petSizes
    rItem,      \* the listed item: inline pet fields and title
    rPc,        \* position of the map callback for the item
    rInfo,      \* the petInfo attached to the item and the source it came from
    rKept,      \* whether filterToursByPet keeps the item
    \* ---- bookmarks (addBookmark against the bookmarks table) ----
    bTable,     \* the rows of the bookmarks table
    bNextId,    \* the id the database gives the next inserted row
    bCalls,     \* number of addBookmark calls made
    bPc,        \* position of addBookmark: "insert", "select", "done"
    bArg,       \* the contentId of the call
    bAtCall,    \* the row of the pair when addBookmark was called (or none)
    bIns,       \* how the insert ended: "none", "inserted", "duplicate", "error"
    bRead,      \* how the read of getBookmark ended: "none", "row", "norow", "error"
    bRemoves,   \* number of removeBookmark calls of other requests
    bResult,    \* what addBookmark returned
    \* ---- one listing page (getAreaBasedList / searchKeyword) ----
    pgOp,       \* the operation called
    pgParams,   \* the caller's numOfRows and pageNo (Undefined when omitted)
    pgBody,     \* the count fields of the envelope (Undefined when omitted)
    pgItems,    \* number of items in the envelope
    pgPc,       \* "called", "returned"
    pgOut,      \* the pagination of the page returned
    \* ---- the markers of the map (NaverMap) ----
    mkTours,    \* the tours handed to the map, each [mapx, mapy] as texts
    mkIdx,      \* number of tours the marker loop has gone through
    mkMarkers,  \* indices of the tours a marker was created for
    mkSkipped,  \* indices of the tours skipped
    \* ---- filterToursByPet over a list ----
    fItems,     \* the list given: items [contentid, petInfo]
    fOpts,      \* the options [petAllowed, petSizes]
    fPc,        \* "input", "once", "twice"
    fOut,       \* filterToursByPet(items, options)
    fOut2,      \* filterToursByPet applied to fOut with the same options
    \* ---- isPetSizeMatch on one record ----
    szInput,    \* the record
    szSizes,    \* the requested size categories
    szPc,       \* "input", "evaluated"
    szResult,   \* what isPetSizeMatch returned
    \* ---- the top list of one axis of the summary ----
    tpStats,    \* the stats array of the axis: <<[code, count]>>
    tpPc,       \* "input", "ranked"
    tpOut,      \* the top list: <<[code, count, rank]>>
    \* ---- one bookmark button (BookmarkButton) of a signed-in user ----
    kRow,       \* the store holds a bookmark row for the (user, attraction) pair
    kState,     \* the React state [isBookmarked, isLoading, isToggling]
    kRender,    \* the state values the last render has captured and displays
    kCheck,     \* checkBookmarkStatus: "userId", "getBookmark", "done"
    kToggles,   \* the calls of handleToggleBookmark: <<[pc, isBookmarked]>>
    \* ---- the URL of the listing page and its controls ----
    uSeen,      \* the query the controls have read (useSearchParams at the last render)
    uTarget,    \* the query of the last router.replace / router.push
    uIntent,    \* history: the query had every change been applied to the one before
    uChanges,   \* number of changes made
    \* ---- the initialisation of the map of one mounted NaverMap ----
    nMounted,   \* the component is mounted (mapRef.current is the map element)
    nNaver,     \* window.naver.maps is defined
    nListener,  \* the 'naver-maps-loaded' listener is registered
    nTimeout,   \* the 5-second timeout: "none", "pending", "fired", "cleared"
    nInterval,  \* the 100 ms polling: "none", "running", "cleared"
    nTicks,     \* ticks of the polling that found no maps API
    nEvents,    \* number of 'naver-maps-loaded' events dispatched
    nCalls,     \* number of calls of initializeMap
    nCreated    \* number of map instances created (mapInstance.current is set iff > 0)

clientVars == <<op, apiKey, pc, attempt, calls, fetches, lastResp, waits, lastError, outcome>>
petVars    == <<petInput, petPc, petResult>>
statsVars  == <<sPc, axis, sSummary>>
homeVars   == <<hVariant, hPc, hParams, hAreas, hNext, hPending, hResults, hFailed,
                hEarly, hTour>>
resolveVars == <<rCtx, rItem, rPc, rInfo, rKept>>
bookmarkVars == <<bTable, bNextId, bCalls, bPc, bArg, bAtCall, bIns, bRead, bRemoves, bResult>>
pageVars   == <<pgOp, pgParams, pgBody, pgItems, pgPc, pgOut>>
mapVars    == <<mkTours, mkIdx, mkMarkers, mkSkipped>>
filterVars == <<fItems, fOpts, fPc, fOut, fOut2>>
sizeVars   == <<szInput, szSizes, szPc, szResult>>
topVars    == <<tpStats, tpPc, tpOut>>
buttonVars == <<kRow, kState, kRender, kCheck, kToggles>>
urlVars    == <<uSeen, uTarget, uIntent, uChanges>>
mapInitVars == <<nMounted, nNaver, nListener, nTimeout, nInterval, nTicks, nEvents, nCalls, nCreated>>
vars       == <<clientVars, petVars, statsVars, homeVars, resolveVars, bookmarkVars, pageVars,
                mapVars, filterVars,
                   sizeVars,
                   topVars,
                   buttonVars,
                   urlVars,
                   mapInitVars>>

-----------------------------------------------------------------------------
(* Generic helpers                                                         *)

Min(a, b) == IF a <= b THEN a ELSE b
Max(a, b) == IF a >= b THEN a ELSE b

RECURSIVE Pow2(_)
Pow2(n) == IF n = 0 THEN 1 ELSE 2 * Pow2(n - 1)

RECURSIVE SumSeq(_)
SumSeq(s) == IF s = <<>> THEN 0 ELSE Head(s) + SumSeq(Tail(s))

\* Math.ceil(a / b) for a >= 0, b > 0
CeilDiv(a, b) == (a + b - 1) \div b

-----------------------------------------------------------------------------
(* tour-api.ts : errors                                                    *)

\* the value of an absent (undefined) statusCode
Undefined == 0 - 1

NoError == [cls |-> "none", statusCode |-> Undefined, fetchMsg |-> FALSE,
            origCls |-> "none", origStatus |-> Undefined]

\* new TourApiError(message, statusCode, response, originalError)
TourApiError(statusCode, orig) ==
    [cls |-> "TourApiError", statusCode |-> statusCode, fetchMsg |-> FALSE,
     origCls |-> orig.cls, origStatus |-> orig.statusCode]

\* a TypeError thrown by fetch(); fetchMsg tells whether its message holds "fetch"
TypeErrorOf(fetchMsg) ==
    [cls |-> "TypeError", statusCode |-> Undefined, fetchMsg |-> fetchMsg,
     origCls |-> "none", origStatus |-> Undefined]

\* the SyntaxError thrown by response.json()
SyntaxErrorOf ==
    [cls |-> "SyntaxError", statusCode |-> Undefined, fetchMsg |-> FALSE,
     origCls |-> "none", origStatus |-> Undefined]

getErrorType(error) ==
    IF error.cls = "TourApiError" THEN "api"
    ELSE IF error.cls = "TypeError" /\ error.fetchMsg THEN "network"
    ELSE IF error.cls = "SyntaxError" THEN "parse"
    ELSE "unknown"

\* JavaScript !x for an optional number
Falsy(n) == n = Undefined \/ n = 0

isRetryableError(error) ==
    LET type == getErrorType(error)
    IN  type = "network"
        \/ (type = "api" /\ error.cls = "TourApiError"
            /\ (Falsy(error.statusCode) \/ error.statusCode >= 500))

-----------------------------------------------------------------------------
(* tour-api.ts : retry configuration                                       *)

maxRetriesOffByOne == 3 + 1
maxRetries == 3
initialDelay == 1000
maxDelay == 4000

\* a backoff that counts the attempts from one
calculateBackoffDelayFromOne(n) == Min(initialDelay * Pow2(n + 1), maxDelay)

calculateBackoffDelay(n) == Min(initialDelay * Pow2(n), maxDelay)

-----------------------------------------------------------------------------
(* tour-api.ts : the operations                                            *)

Operations == {"getAreaCode", "getAreaBasedList", "searchKeyword", "getDetailCommon",
               "getDetailIntro", "getDetailImage", "getDetailPetTour"}

\* parseInt(digits, 10) of a string of decimal digits
RECURSIVE parseInt(_)
parseInt(d) == IF d = <<>> THEN 0 ELSE 10 * parseInt(SubSeq(d, 1, Len(d) - 1)) + d[Len(d)]

SuccessCode == <<0, 0, 0, 0>>

Resp(kind, status, code, nItems, fetchMsg) ==
    [kind |-> kind, status |-> status, code |-> code, nItems |-> nItems,
     fetchMsg |-> fetchMsg]

\* What the upstream can answer to one fetch.
Responses ==
    {Resp("networkError", 0, <<>>, 0, m) : m \in BOOLEAN}
    \cup {Resp("http", s, <<>>, 0, FALSE) : s \in {404, 429, 500, 503}}
    \cup {Resp(k, 200, <<>>, 0, FALSE) : k \in {"badJson", "notObject", "noHeader"}}
    \cup {Resp("noBody", 200, SuccessCode, 0, FALSE)}
    \cup {Resp("resultCode", 200, c, 0, FALSE) :
             c \in {<<0, 3>>, <<2, 2>>, <<4, 0, 4>>, <<5, 0, 0>>}}
    \cup {Resp("ok", 200, SuccessCode, n, FALSE) : n \in 0..1}

\* no fetch was issued (initially, or because getApiKey threw)
NoResp == Resp("none", 0, <<>>, 0, FALSE)

Threw(e) == [threw |-> TRUE, err |-> e, nItems |-> 0, isNull |-> FALSE]
Returned(n, isNull) == [threw |-> FALSE, err |-> NoError, nItems |-> n, isNull |-> isNull]
NoOutcome == [threw |-> FALSE, err |-> NoError, nItems |-> 0 - 1, isNull |-> FALSE]

\* getApiKey(): throws when neither environment variable is set
getApiKeyThrows(key) == ~key
ApiKeyError == TourApiError(Undefined, NoError)

\* parseApiResponse(data): the error it throws, NoError when it returns
parseApiResponse(r) ==
    IF r.kind = "notObject" THEN TourApiError(Undefined, NoError)
    ELSE IF r.kind = "noHeader" THEN TourApiError(Undefined, NoError)
    ELSE IF r.code # SuccessCode THEN TourApiError(parseInt(r.code), NoError)
    ELSE IF r.kind = "noBody" THEN TourApiError(Undefined, NoError)
    ELSE NoError

\* the body of the try block of an operation: what it throws or returns
TryBlock(o, r) ==
    IF r.kind = "networkError" THEN Threw(TypeErrorOf(r.fetchMsg))
    ELSE IF r.status < 200 \/ r.status > 299 THEN Threw(TourApiError(r.status, NoError))
    ELSE IF r.kind = "badJson" THEN Threw(SyntaxErrorOf)
    ELSE IF parseApiResponse(r) # NoError THEN Threw(parseApiResponse(r))
    ELSE IF r.nItems = 0 /\ o \in {"getDetailCommon", "getDetailIntro"}
         THEN Threw(TourApiError(Undefined, NoError))
    ELSE IF r.nItems = 0 /\ o = "getDetailPetTour" THEN Returned(0, TRUE)
    ELSE Returned(r.nItems, FALSE)

\* catch (error) { throw new TourApiError(message, undefined, undefined, error) }
WrapError(e) == TourApiError(Undefined, e)

\* one invocation of the callback handed to withRetry
Fn(o, key, r) ==
    IF getApiKeyThrows(key) THEN Threw(ApiKeyError)
    ELSE LET t == TryBlock(o, r)
         IN  IF t.threw THEN Threw(WrapError(t.err)) ELSE t

\* if (!isRetryableError(error) || attempt === retries) throw error
GivesUp(error, n) == ~isRetryableError(error) \/ n = maxRetries

ClientIdle ==
    /\ op = "getAreaCode" /\ apiKey = TRUE /\ pc = "done" /\ attempt = 0
    /\ calls = 0 /\ fetches = 0 /\ lastResp = NoResp /\ waits = <<>>
    /\ lastError = NoError /\ outcome = NoOutcome

ClientInit ==
    /\ op \in Operations
    /\ apiKey \in BOOLEAN
    /\ pc = "call" /\ attempt = 0 /\ calls = 0 /\ fetches = 0
    /\ lastResp = NoResp /\ waits = <<>> /\ lastError = NoError /\ outcome = NoOutcome

\* one pass of the for loop of withRetry up to its await
LoopStep ==
    /\ pc = "call"
    /\ IF attempt <= maxRetries
       THEN \E r \in (IF getApiKeyThrows(apiKey) THEN {NoResp} ELSE Responses) :
              LET res == Fn(op, apiKey, r)
              IN  /\ calls' = calls + 1
                  /\ fetches' = IF getApiKeyThrows(apiKey) THEN fetches ELSE fetches + 1
                  /\ lastResp' = r
                  /\ IF ~res.threw
                     THEN /\ pc' = "done" /\ outcome' = res
                          /\ UNCHANGED <<lastError, waits>>
                     ELSE /\ lastError' = res.err
                          /\ IF GivesUp(res.err, attempt)
                             THEN /\ pc' = "done" /\ outcome' = Threw(res.err)
                                  /\ UNCHANGED waits
                             ELSE /\ pc' = "backoff"
                                  /\ waits' = Append(waits, calculateBackoffDelay(attempt))
                                  /\ UNCHANGED outcome
       ELSE /\ pc' = "done" /\ outcome' = Threw(lastError)
            /\ UNCHANGED <<calls, fetches, lastResp, waits, lastError>>
    /\ UNCHANGED <<op, apiKey, attempt>>

\* the backoff timer fires and the loop increments attempt
BackoffElapsed ==
    /\ pc = "backoff"
    /\ attempt' = attempt + 1
    /\ pc' = "call"
    /\ UNCHANGED <<op, apiKey, calls, fetches, lastResp, waits, lastError, outcome>>

-----------------------------------------------------------------------------
(* Classification of upstream answers, as the claims speak of them         *)

\* the status code the upstream made known with answer r (Undefined if none)
KnownStatus(r) ==
    IF r.kind = "http" THEN r.status
    ELSE IF r.kind = "resultCode" THEN parseInt(r.code)
    ELSE Undefined

\* a client-class failure: HTTP 4xx, a 4xx-class result code, a malformed payload
ClientClass(r) ==
    \/ (r.kind \in {"http", "resultCode"} /\ KnownStatus(r) >= 400 /\ KnownStatus(r) <= 499)
    \/ r.kind \in {"badJson", "notObject", "noHeader", "noBody"}

\* a failure the retry policy is meant to retry: network-class or 5xx
RetryableClass(r) ==
    \/ r.kind = "networkError"
    \/ (r.kind \in {"http", "resultCode"} /\ KnownStatus(r) >= 500)

-----------------------------------------------------------------------------
(* pet-filter.ts : texts                                                   *)

\* String.prototype.toLowerCase, one character
LowerChar(c) ==
    CASE c = "Y" -> "y" [] c = "E" -> "e" [] c = "S" -> "s" [] c = "O" -> "o"
      [] c = "K" -> "k" [] c = "P" -> "p" [] c = "T" -> "t" [] OTHER -> c

toLowerCase(t) == [i \in 1..Len(t) |-> LowerChar(t[i])]

\* String.prototype.includes
includes(t, k) == \E i \in 0..(Len(t) - Len(k)) : SubSeq(t, i + 1, i + Len(k)) = k

IsSpace(c) == c = " "

RECURSIVE trimStart(_)
trimStart(t) == IF t # <<>> /\ IsSpace(Head(t)) THEN trimStart(Tail(t)) ELSE t

RECURSIVE trimEnd(_)
trimEnd(t) ==
    IF t # <<>> /\ IsSpace(t[Len(t)]) THEN trimEnd(SubSeq(t, 1, Len(t) - 1)) ELSE t

\* String.prototype.trim
trim(t) == trimEnd(trimStart(t))

\* Array.prototype.join(' ') of a sequence of texts
RECURSIVE join(_)
join(parts) ==
    IF parts = <<>> THEN <<>>
    ELSE IF Len(parts) = 1 THEN parts[1]
    ELSE parts[1] \o <<" ">> \o join(Tail(parts))

PET_SIZE_KEYWORDS ==
    [small  |-> {<<"so", "hyeong">>, <<"so", "hyeong", "gyeon">>},
     medium |-> {<<"jung", "hyeong">>, <<"jung", "hyeong", "gyeon">>},
     large  |-> {<<"dae", "hyeong">>, <<"dae", "hyeong", "gyeon">>}]

DISALLOW_KEYWORDS ==
    {<<"bul", "ga">>, <<"geum", "ji">>,
     <<"ip", "jang", "bul", "ga">>, <<"ip", "jang", " ", "bul", "ga">>,
     <<"dong", "ban", "bul", "ga">>, <<"dong", "ban", " ", "bul", "ga">>,
     <<"chul", "ip", "bul", "ga">>, <<"chul", "ip", " ", "bul", "ga">>,
     <<"ban", "ip", "bul", "ga">>, <<"ban", "ip", " ", "bul", "ga">>,
     <<"bul", "ga", "neung">>, <<"an", "doem">>, <<"an", " ", "doem">>,
     <<"an", "doep", "ni", "da">>, <<"eops", "seup", "ni", "da">>}

ALLOW_KEYWORDS ==
    {<<"dong", "ban", "ga", "neung">>, <<"dong", "ban", " ", "ga", "neung">>,
     <<"ip", "jang", "ga", "neung">>, <<"ip", "jang", " ", "ga", "neung">>,
     <<"chul", "ip", "ga", "neung">>, <<"chul", "ip", " ", "ga", "neung">>,
     <<"ban", "ip", "ga", "neung">>, <<"ban", "ip", " ", "ga", "neung">>,
     <<"jeon", " ", "gyeon", "jong">>, <<"so", "hyeong", "gyeon">>,
     <<"jung", "hyeong", "gyeon">>, <<"dae", "hyeong", "gyeon">>,
     <<"so", "hyeong", " ", "gyeon">>, <<"jung", "hyeong", " ", "gyeon">>,
     <<"dae", "hyeong", " ", "gyeon">>, <<"jeon", "gyeon", "jong">>,
     <<"mok", "jul">>, <<"ri", "deu", "jul">>, <<"ip", "ma", "gae">>,
     <<"ken", "nel">>, <<"i", "dong", "jang">>, <<"bae", "byeon", "bong", "tu">>,
     <<"ga", "neung", "ham">>, <<"heo", "yong", "doem">>,
     <<"il", "bu", "gu", "yeok">>, <<"il", "bu", " ", "gu", "yeok">>,
     <<"jeon", " ", "gu", "yeok">>, <<"jeon", "gu", "yeok">>}

\* KEYWORDS.some((keyword) => text.includes(keyword.toLowerCase()))
someKeyword(keywords, text) == \E k \in keywords : includes(text, toLowerCase(k))

isPetAllowedFromText(text) ==
    IF text = <<>> THEN FALSE
    ELSE LET lower == toLowerCase(text)
         IN  someKeyword(ALLOW_KEYWORDS, lower) /\ ~someKeyword(DISALLOW_KEYWORDS, lower)

-----------------------------------------------------------------------------
(* pet-filter.ts : PetTourInfo records                                     *)
(* A record is [isNull, f]: isNull for null/undefined, f the function from *)
(* its populated fields to their texts (an absent field is not in DOMAIN). *)

ApiFields == {"acmpyTypeCd", "etcAcmpyInfo", "acmpyPsblCpam", "acmpyNeedMtr"}
LegacyFields == {"chkpetleash", "chkpetsize", "chkpetplace", "chkpetfee", "petinfo"}
PetFields == ApiFields \cup LegacyFields

\* the order in which isPetAllowed merges the fields
MergeOrder == <<"chkpetleash", "chkpetsize", "chkpetplace", "chkpetfee", "petinfo",
                "acmpyTypeCd", "etcAcmpyInfo", "acmpyPsblCpam", "acmpyNeedMtr">>

NullPet == [isNull |-> TRUE, f |-> <<>>]

\* petInfo.x?.trim() is truthy
trimmedTruthy(p, x) == x \in DOMAIN p.f /\ trim(p.f[x]) # <<>>

\* Boolean(petInfo.x): present and not the empty string
truthy(p, x) == x \in DOMAIN p.f /\ p.f[x] # <<>>

\* [fields...].filter(Boolean).join(' ')
mergedTextOf(p) ==
    LET kept == SelectSeq(MergeOrder, LAMBDA x : truthy(p, x))
    IN  join([i \in 1..Len(kept) |-> p.f[kept[i]]])

hasApiData(p) == \E x \in ApiFields : trimmedTruthy(p, x)
hasLegacyData(p) == \E x \in LegacyFields : trimmedTruthy(p, x)

\* the acmpyTypeCd block returns false / returns true / falls through
typeCdVerdict(p) ==
    IF ~trimmedTruthy(p, "acmpyTypeCd") THEN "none"
    ELSE LET typeCd == toLowerCase(p.f["acmpyTypeCd"])
         IN  IF someKeyword(DISALLOW_KEYWORDS, typeCd) THEN "deny"
             ELSE IF someKeyword(ALLOW_KEYWORDS, typeCd) THEN "allow"
             ELSE "none"

\* a judgement that allows whatever is not refused, missing data included
isPetAllowedUnlessRefused(p) ==
    p.isNull \/ ~someKeyword(DISALLOW_KEYWORDS, toLowerCase(mergedTextOf(p)))

\* a slip that lets an allow keyword win over a disallow keyword
isPetAllowedAllowFirst(p) ==
    /\ ~p.isNull
    /\ someKeyword(ALLOW_KEYWORDS, toLowerCase(mergedTextOf(p)))

isPetAllowed(p) ==
    IF p.isNull THEN FALSE
    ELSE IF ~hasApiData(p) /\ ~hasLegacyData(p) THEN FALSE
    ELSE IF typeCdVerdict(p) = "deny" THEN FALSE
    ELSE IF typeCdVerdict(p) = "allow" THEN TRUE
    ELSE LET mergedText == mergedTextOf(p)
             lowerText == toLowerCase(mergedText)
         IN  IF trim(mergedText) = <<>> THEN FALSE
             ELSE IF someKeyword(DISALLOW_KEYWORDS, lowerText) THEN FALSE
             ELSE someKeyword(ALLOW_KEYWORDS, lowerText)

\* a match that asks for a keyword of every requested category
matchesPetSizeEvery(present, text, petSizes) ==
    IF petSizes = {} THEN TRUE
    ELSE IF ~present \/ text = <<>> THEN FALSE
    ELSE LET normalized == toLowerCase(text)
         IN  \A size \in petSizes : \E k \in PET_SIZE_KEYWORDS[size] : includes(normalized, k)

\* matchesPetSize(text, petSizes); the text is given as (present, text)
matchesPetSize(present, text, petSizes) ==
    IF petSizes = {} THEN TRUE
    ELSE IF ~present \/ text = <<>> THEN FALSE
    ELSE LET normalized == toLowerCase(text)
         IN  \E size \in petSizes : \E k \in PET_SIZE_KEYWORDS[size] : includes(normalized, k)

isPetSizeMatch(p, petSizes) ==
    IF petSizes = {} THEN TRUE
    ELSE IF p.isNull THEN matchesPetSize(FALSE, <<>>, petSizes)
    ELSE matchesPetSize("chkpetsize" \in DOMAIN p.f,
                        IF "chkpetsize" \in DOMAIN p.f THEN p.f["chkpetsize"] ELSE <<>>,
                        petSizes)

\* a callback that asks for an allowed accommodation whenever a filter is on
passesPetFilterAllowedAlways(p, petAllowed, petSizes) ==
    IF ~petAllowed /\ petSizes = {} THEN TRUE
    ELSE isPetAllowed(p) /\ isPetSizeMatch(p, petSizes)

\* the predicate of the filter callback of filterToursByPet for one item
passesPetFilter(p, petAllowed, petSizes) ==
    IF ~petAllowed /\ petSizes = {} THEN TRUE
    ELSE (IF petAllowed THEN isPetAllowed(p) ELSE TRUE) /\ isPetSizeMatch(p, petSizes)

\* the field texts the records are built from
PetTexts ==
    {<<>>, <<" ">>,
     <<"dong", "ban", "ga", "neung">>,
     <<"dong", "ban", " ", "bul", "ga">>,
     <<"so", "hyeong", "gyeon">>,
     <<"mok", "jul", " ", "pil", "su">>,
     <<"mu", "ryo">>,
     <<"Y", "E", "S">>,
     <<"dong", "ban", "ga", "neung", "ha", "ji", "man", " ", "ip", "jang", "bul", "ga">>}

MaxPopulated == 2

PetInputs ==
    {NullPet} \cup
    {[isNull |-> FALSE, f |-> g] :
        g \in UNION {[D -> PetTexts] : D \in {S \in SUBSET PetFields : Cardinality(S) <= MaxPopulated}}}

PetIdle == petInput = NullPet /\ petPc = "idle" /\ petResult = FALSE

PetInit == petInput \in PetInputs /\ petPc = "input" /\ petResult = FALSE

EvaluatePet ==
    /\ petPc = "input"
    /\ petResult' = isPetAllowed(petInput)
    /\ petPc' = "evaluated"
    /\ UNCHANGED petInput

PetSizes == {"small", "medium", "large"}

\* the size texts the records are built from
SizeTexts ==
    {<<>>,
     <<"so", "hyeong", ".", "jung", "hyeong", "gyeon", " ", "ga", "neung">>,
     <<"dae", "hyeong", "gyeon", " ", "ga", "neung">>,
     <<"P", "E", "T", " ", "so", "hyeong">>,
     <<"so", " ", "hyeong">>,
     <<"mu", "ryo">>}

SizeInputs ==
    {NullPet, [isNull |-> FALSE, f |-> <<>>]} \cup
    {[isNull |-> FALSE, f |-> [x \in {"chkpetsize"} |-> t]] : t \in SizeTexts}

SizeIdle == szInput = NullPet /\ szSizes = {} /\ szPc = "idle" /\ szResult = FALSE

SizeInit ==
    /\ szInput \in SizeInputs /\ szSizes \in SUBSET PetSizes
    /\ szPc = "input" /\ szResult = FALSE

EvaluateSize ==
    /\ szPc = "input"
    /\ szResult' = isPetSizeMatch(szInput, szSizes)
    /\ szPc' = "evaluated"
    /\ UNCHANGED <<szInput, szSizes>>

\* a filter that loses the first item it kept
filterToursByPetDropsFirst(items, options) ==
    LET kept == SelectSeq(items, LAMBDA it :
                    passesPetFilter(it.petInfo, options.petAllowed, options.petSizes))
    IN  IF kept = <<>> THEN kept ELSE Tail(kept)

filterToursByPet(items, options) ==
    IF ~options.petAllowed /\ options.petSizes = {} THEN items
    ELSE SelectSeq(items, LAMBDA it :
             passesPetFilter(it.petInfo, options.petAllowed, options.petSizes))

MaxFilterItems == 2

PetInfoOf(leash, size) ==
    [isNull |-> FALSE,
     f |-> [x \in {y \in {"chkpetleash"} : leash # <<>>} \cup
                  {y \in {"chkpetsize"} : size # <<>>} |->
               IF x = "chkpetleash" THEN leash ELSE size]]

\* the pet data of the items: none, allowed and small, not allowed and large,
\* not allowed and small, allowed without a size, a record without fields
FilterRecords ==
    {NullPet,
     PetInfoOf(<<"dong", "ban", " ", "ga", "neung">>, <<"so", "hyeong", "gyeon", " ", "ga", "neung">>),
     PetInfoOf(<<"dong", "ban", " ", "bul", "ga">>, <<"dae", "hyeong", "gyeon", " ", "bul", "ga">>),
     PetInfoOf(<<>>, <<"so", "hyeong", "gyeon", " ", "bul", "ga">>),
     PetInfoOf(<<"dong", "ban", " ", "ga", "neung">>, <<>>),
     PetInfoOf(<<>>, <<>>)}

FilterOptions == [petAllowed : BOOLEAN, petSizes : SUBSET {"small", "large"}]

FilterIdle ==
    /\ fItems = <<>> /\ fOut = <<>> /\ fOut2 = <<>> /\ fPc = "idle"
    /\ fOpts = [petAllowed |-> FALSE, petSizes |-> {}]

FilterInit ==
    /\ \E n \in 0..MaxFilterItems : \E g \in [1..n -> FilterRecords] :
           fItems = [i \in 1..n |-> [contentid |-> i, petInfo |-> g[i]]]
    /\ fOpts \in FilterOptions
    /\ fPc = "input" /\ fOut = <<>> /\ fOut2 = <<>>

FilterOnce ==
    /\ fPc = "input"
    /\ fOut' = filterToursByPet(fItems, fOpts)
    /\ fPc' = "once"
    /\ UNCHANGED <<fItems, fOpts, fOut2>>

FilterAgain ==
    /\ fPc = "once"
    /\ fOut2' = filterToursByPet(fOut, fOpts)
    /\ fPc' = "twice"
    /\ UNCHANGED <<fItems, fOpts, fOut>>

-----------------------------------------------------------------------------
(* stats-api.ts                                                            *)
(* An axis is "region" (getRegionStatsInternal: one entry per area, one    *)
(* count query per content type) or "type" (getTypeStatsInternal: one      *)
(* entry per content type, one count query per area).                      *)

MaxAreas == 2
NumTypes == 2

Axes == {"region", "type"}
Pending == 0 - 1

\* the totalCount the upstream holds for an (area, content type) pair
UpstreamTotal(area, type) == (area + type) % 3

Entries(a, n) == IF a = "region" THEN 1..n ELSE 1..NumTypes
Subs(a, n) == IF a = "region" THEN 1..NumTypes ELSE 1..n
AreaOf(a, e, s) == IF a = "region" THEN e ELSE s
TypeOf(a, e, s) == IF a = "region" THEN s ELSE e

\* a launch that issues only the first entry's queries and holds the rest back
LaunchedBatched(a, n) == {e \in Entries(a, n) : e <= 1} \X Subs(a, n)

\* the count queries issued by the two nested map(async ...) calls: every
\* getAreaBasedList call runs up to its fetch before the first await returns
Launched(a, n) == Entries(a, n) \X Subs(a, n)

AxisStart ==
    [pc |-> "areaCode", n |-> 0, issued |-> {}, count |-> <<>>, ok |-> <<>>, pct |-> <<>>]

\* the count queries of axis record x that are in flight
InFlightOf(x) == {q \in x.issued : x.count[q[1]] = Pending}
InFlight == Cardinality(InFlightOf(axis["region"])) + Cardinality(InFlightOf(axis["type"]))

RECURSIVE SumOver(_, _)
SumOver(f, S) ==
    IF S = {} THEN 0
    ELSE LET x == CHOOSE y \in S : TRUE IN f[x] + SumOver(f, S \ {x})

\* a reduce that gives up the whole entry when one of its count queries failed
EntryCountAllOrNothing(a, e, n, ok) ==
    IF ok = Subs(a, n)
    THEN SumOver([s \in ok |-> UpstreamTotal(AreaOf(a, e, s), TypeOf(a, e, s))], ok)
    ELSE 0

\* the count of entry e once its queries have settled, ok being those that returned:
\* a failed query was turned into 0 by its catch, and the reduce adds the values up
EntryCount(a, e, n, ok) ==
    LET value == [s \in Subs(a, n) |->
                    IF s \in ok THEN UpstreamTotal(AreaOf(a, e, s), TypeOf(a, e, s)) ELSE 0]
    IN  SumOver(value, Subs(a, n))

\* a floating-point quotient is kept to 1/PCT_UNIT, rounded down
PCT_UNIT == 10000

\* a share of the largest count instead of the total
percentageOfLargest(count, totalCount, largest) ==
    IF largest > 0 THEN (count * 100 * PCT_UNIT) \div largest ELSE 0

\* totalCount > 0 ? (stat.count / totalCount) * 100 : 0
percentageOf(count, totalCount, largest) ==
    IF totalCount > 0 THEN (count * 100 * PCT_UNIT) \div totalCount ELSE 0

\* the percentage of every entry of the array with these counts
percentages(count) ==
    LET totalCount == SumOver(count, DOMAIN count)
        largest == IF DOMAIN count = {} THEN 0
                   ELSE CHOOSE m \in {count[e] : e \in DOMAIN count} :
                            \A e \in DOMAIN count : count[e] <= m
    IN  [e \in DOMAIN count |-> percentageOf(count[e], totalCount, largest)]

\* the stats array of a finished axis: <<[code, count]>> in entry order
StatsOf(x) == [e \in 1..Cardinality(DOMAIN x.count) |-> [code |-> e, count |-> x.count[e]]]

\* an insertion that puts a later entry before the earlier ones of equal count
RECURSIVE InsertDescUnstable(_, _)
InsertDescUnstable(sorted, x) ==
    IF sorted = <<>> THEN <<x>>
    ELSE IF Head(sorted).count > x.count
         THEN <<Head(sorted)>> \o InsertDescUnstable(Tail(sorted), x)
    ELSE <<x>> \o sorted

\* Array.prototype.sort((a, b) => b.count - a.count): stable, descending
RECURSIVE InsertDesc(_, _)
InsertDesc(sorted, x) ==
    IF sorted = <<>> THEN <<x>>
    ELSE IF Head(sorted).count >= x.count THEN <<Head(sorted)>> \o InsertDesc(Tail(sorted), x)
    ELSE <<x>> \o sorted

RECURSIVE SortDesc(_)
SortDesc(s) ==
    IF s = <<>> THEN <<>>
    ELSE InsertDesc(SortDesc(SubSeq(s, 1, Len(s) - 1)), s[Len(s)])

\* .sort(...).slice(0, 3).map((x, index) => ({..., rank: index + 1}))
Top3(stats) ==
    LET sorted == SortDesc(stats)
        top == SubSeq(sorted, 1, Min(3, Len(sorted)))
    IN  [i \in 1..Len(top) |-> [code |-> top[i].code, count |-> top[i].count, rank |-> i]]

NoSummary == [threw |-> FALSE, totalCount |-> 0 - 1, topRegions |-> <<>>, topTypes |-> <<>>]

\* the two axes joined with Promise.all: one failed axis fails the summary
getStatsSummaryAll(r, t) ==
    IF r.pc = "failed" \/ t.pc = "failed"
    THEN [threw |-> TRUE, totalCount |-> 0, topRegions |-> <<>>, topTypes |-> <<>>]
    ELSE [threw |-> FALSE,
          totalCount |-> SumOver(t.count, DOMAIN t.count),
          topRegions |-> Top3(StatsOf(r)),
          topTypes |-> Top3(StatsOf(t))]

\* getStatsSummaryInternal once both axes have settled (Promise.allSettled)
getStatsSummaryInternal(r, t) ==
    LET regionStats == IF r.pc = "done" THEN StatsOf(r) ELSE <<>>
        typeStats == IF t.pc = "done" THEN StatsOf(t) ELSE <<>>
    IN  [threw |-> FALSE,
         totalCount |-> SumSeq([i \in 1..Len(typeStats) |-> typeStats[i].count]),
         topRegions |-> Top3(regionStats),
         topTypes |-> Top3(typeStats)]

MaxRanked == 4

RankedCounts == {5, 20, 50}

TopIdle == tpStats = <<>> /\ tpPc = "idle" /\ tpOut = <<>>

\* an axis has returned its stats array to getStatsSummaryInternal
TopInit ==
    /\ \E n \in 0..MaxRanked : \E c \in [1..n -> RankedCounts] :
           tpStats = [e \in 1..n |-> [code |-> e, count |-> c[e]]]
    /\ tpPc = "input" /\ tpOut = <<>>

RankTop ==
    /\ tpPc = "input"
    /\ tpOut' = Top3(tpStats)
    /\ tpPc' = "ranked"
    /\ UNCHANGED tpStats

StatsIdle ==
    /\ sPc = "idle"
    /\ axis = [a \in Axes |-> AxisStart]
    /\ sSummary = NoSummary

\* getStatsSummaryInternal has called both axis functions, each awaiting getAreaCode
StatsInit ==
    /\ sPc = "running"
    /\ axis = [a \in Axes |-> AxisStart]
    /\ sSummary = NoSummary

\* getAreaCode() of an axis throws: the axis function rethrows a TourApiError
AreaCodeFails(a) ==
    /\ sPc = "running" /\ axis[a].pc = "areaCode"
    /\ axis' = [axis EXCEPT ![a].pc = "failed"]
    /\ UNCHANGED <<sPc, sSummary>>

\* getAreaCode() of an axis returns n areas and the axis issues its count queries
AreaCodeReturns(a) ==
    /\ sPc = "running" /\ axis[a].pc = "areaCode"
    /\ \E n \in 0..MaxAreas :
         axis' = [axis EXCEPT ![a] = [pc |-> "counting", n |-> n,
                                      issued |-> Launched(a, n),
                                      count |-> [e \in Entries(a, n) |-> Pending],
                                      ok |-> [e \in Entries(a, n) |-> {}],
                                      pct |-> <<>>]]
    /\ UNCHANGED <<sPc, sSummary>>

\* the inner Promise.allSettled of one entry resolves: each of its count queries
\* has returned its total or has failed (and was turned into 0 by the catch)
EntrySettles(a) ==
    /\ sPc = "running" /\ axis[a].pc = "counting"
    /\ \E e \in DOMAIN axis[a].count :
         /\ axis[a].count[e] = Pending
         /\ \E ok \in SUBSET Subs(a, axis[a].n) :
              axis' = [axis EXCEPT ![a].count[e] = EntryCount(a, e, axis[a].n, ok),
                                   ![a].ok[e] = ok]
    /\ UNCHANGED <<sPc, sSummary>>

\* the outer Promise.allSettled of an axis resolves and the axis returns its stats
AxisReturns(a) ==
    /\ sPc = "running" /\ axis[a].pc = "counting"
    /\ \A e \in DOMAIN axis[a].count : axis[a].count[e] # Pending
    /\ axis' = [axis EXCEPT ![a].pc = "done", ![a].pct = percentages(axis[a].count)]
    /\ UNCHANGED <<sPc, sSummary>>

\* Promise.allSettled([region, type]) resolves and the summary is built
SummaryReturns ==
    /\ sPc = "running"
    /\ \A a \in Axes : axis[a].pc \in {"done", "failed"}
    /\ sSummary' = getStatsSummaryInternal(axis["region"], axis["type"])
    /\ sPc' = "done"
    /\ UNCHANGED axis

-----------------------------------------------------------------------------
(* tour-api.ts : pagination                                                *)

\* a page count that rounds down
calculatePaginationFloor(numOfRows, pageNo, totalCount) ==
    [pageNo |-> pageNo, numOfRows |-> numOfRows, totalCount |-> totalCount,
     totalPages |-> totalCount \div numOfRows]

calculatePagination(numOfRows, pageNo, totalCount) ==
    [pageNo |-> pageNo, numOfRows |-> numOfRows, totalCount |-> totalCount,
     totalPages |-> CeilDiv(totalCount, numOfRows)]

\* JavaScript a || b for optional numbers
OrElse(a, b) == IF Falsy(a) THEN b ELSE a

\* the pagination of the page returned by getAreaBasedList and searchKeyword:
\* params are the caller's numOfRows and pageNo, body the envelope's count fields
ListingPage(params, body, nItems) ==
    LET reqRows == OrElse(params.numOfRows, 10)
        reqPage == OrElse(params.pageNo, 1)
    IN  calculatePagination(OrElse(OrElse(body.numOfRows, reqRows), 10),
                            OrElse(OrElse(body.pageNo, reqPage), 1),
                            OrElse(body.totalCount, nItems))

MaxPageItems == 2

PageParams == [numOfRows : {Undefined, 1, 20}, pageNo : {Undefined, 2}]
PageBodies == [numOfRows : {Undefined, 0, 10}, pageNo : {Undefined, 3},
               totalCount : {Undefined, 0, 25}]

PageIdle ==
    /\ pgOp = "getAreaBasedList" /\ pgPc = "idle" /\ pgItems = 0
    /\ pgParams = [numOfRows |-> Undefined, pageNo |-> Undefined]
    /\ pgBody = [numOfRows |-> Undefined, pageNo |-> Undefined, totalCount |-> Undefined]
    /\ pgOut = calculatePagination(1, 1, 0)

\* the operation was called and the upstream has answered with a valid envelope
PageInit ==
    /\ pgOp \in {"getAreaBasedList", "searchKeyword"}
    /\ pgParams \in PageParams /\ pgBody \in PageBodies
    /\ pgItems \in 0..MaxPageItems
    /\ pgPc = "called"
    /\ pgOut = calculatePagination(1, 1, 0)

\* the operation builds the page it returns
PageReturns ==
    /\ pgPc = "called"
    /\ pgOut' = ListingPage(pgParams, pgBody, pgItems)
    /\ pgPc' = "returned"
    /\ UNCHANGED <<pgOp, pgParams, pgBody, pgItems>>

-----------------------------------------------------------------------------
(* page.tsx (Home) : the listing stage                                     *)
(* Two copies of the home page are in the repository: "batched" (keyword   *)
(* search, regions fetched in batches) and "parallel" (no keyword search,  *)
(* all regions fetched at once).                                           *)

HomeVariants == {"batched", "parallel"}

AREA_BATCH_SIZE == 3
HOME_PAGE_SIZE == 20
FETCH_ROWS_FILTERED == 100
MaxHomeAreas == 4
MaxRegionItems == 1
MaxListItems == 2

\* the j-th item the upstream lists for region r
ItemOf(r, j) == [area |-> r, idx |-> j, title |-> (2 * r + j) % 3,
                 modifiedtime |-> (r + 2 * j) % 4]

ItemsOf(r, k) == [j \in 1..k |-> ItemOf(r, j)]

ListingOutcome(r, k) == [status |-> "ok", items |-> ItemsOf(r, k)]
ListingFailure == [status |-> "failed", items |-> <<>>]
NotSettled == [status |-> "pending", items |-> <<>>]

\* a region request without the .catch handler: its rejection stays a rejection
RegionNoCatch(o) == o

\* .catch((err) => ({items: [], pagination: {...totalCount: 0}}))
RegionCatch(o) == IF o.status = "failed" THEN [status |-> "ok", items |-> <<>>] ELSE o

RECURSIVE FlatMapItems(_, _)
FlatMapItems(res, n) ==
    IF n = 0 THEN <<>> ELSE FlatMapItems(res, n - 1) \o res[n].items

\* [...allItems].sort(comparator): stable; "title" ascending, else modifiedtime
\* descending
RECURSIVE InsertBy(_, _, _)
InsertBy(sorted, x, key) ==
    IF sorted = <<>> THEN <<x>>
    ELSE IF key = "title"
         THEN IF Head(sorted).title <= x.title
              THEN <<Head(sorted)>> \o InsertBy(Tail(sorted), x, key)
              ELSE <<x>> \o sorted
         ELSE IF Head(sorted).modifiedtime >= x.modifiedtime
              THEN <<Head(sorted)>> \o InsertBy(Tail(sorted), x, key)
              ELSE <<x>> \o sorted

RECURSIVE SortItems(_, _)
SortItems(s, key) ==
    IF s = <<>> THEN <<>>
    ELSE InsertBy(SortItems(SubSeq(s, 1, Len(s) - 1), key), s[Len(s)], key)

\* Array.prototype.slice(start, end)
slice(s, start, end) == SubSeq(s, start + 1, Min(end, Len(s)))

NoTour == [isNull |-> TRUE, error |-> FALSE, items |-> <<>>,
           pagination |-> calculatePagination(HOME_PAGE_SIZE, 1, 0)]

TourError == [isNull |-> TRUE, error |-> TRUE, items |-> <<>>,
              pagination |-> calculatePagination(HOME_PAGE_SIZE, 1, 0)]

\* the merge of all settled region results into tourData
MergeRegions(res, n, sortBy, pageNo) ==
    LET allItems == FlatMapItems(res, n)
        sortedItems == SortItems(allItems, sortBy)
        startIndex == (pageNo - 1) * HOME_PAGE_SIZE
    IN  [isNull |-> FALSE, error |-> FALSE,
         items |-> slice(sortedItems, startIndex, startIndex + HOME_PAGE_SIZE),
         pagination |-> [pageNo |-> pageNo, numOfRows |-> HOME_PAGE_SIZE,
                         totalCount |-> Len(allItems),
                         totalPages |-> CeilDiv(Len(allItems), HOME_PAGE_SIZE)]]

HomeParams ==
    [areaSelected : BOOLEAN, hasKeyword : BOOLEAN, petFilter : BOOLEAN,
     pageNo : 1..2, sortBy : {"title", "modifiedtime"}]

\* which listing request(s) Home makes
HomeMode(variant, params, n) ==
    IF variant = "batched" /\ (params.hasKeyword \/ params.petFilter) THEN "search"
    ELSE IF params.areaSelected THEN "region"
    ELSE IF n = 0 THEN "default"
    ELSE "all"

\* the batch (0, 1, ...) a region belongs to
BatchOf(r) == (r - 1) \div AREA_BATCH_SIZE

\* the regions requested at once when the loop variable is i
BatchAt(variant, i, n) ==
    IF variant = "batched" THEN {r \in 1..n : i < r /\ r <= i + AREA_BATCH_SIZE}
    ELSE 1..n

\* whether issuing the requests of regions S breaks the batch discipline: a region
\* of a later batch while the batch before it is unsettled or its delay has not run
IssuedEarly(S, res, delayElapsed) ==
    \E r \in S :
        /\ BatchOf(r) > 0
        /\ \/ ~delayElapsed
           \/ \E q \in DOMAIN res : BatchOf(q) = BatchOf(r) - 1 /\ res[q] = NotSettled

HomeIdle ==
    /\ hVariant = "batched" /\ hPc = "idle"
    /\ hParams = [areaSelected |-> TRUE, hasKeyword |-> FALSE, petFilter |-> FALSE,
                  pageNo |-> 1, sortBy |-> "modifiedtime"]
    /\ hAreas = 0 /\ hNext = 0 /\ hPending = {} /\ hResults = <<>> /\ hFailed = {}
    /\ hEarly = FALSE /\ hTour = NoTour

\* Home has read searchParams and awaits getAreaCode().catch(() => [])
HomeInit ==
    /\ hVariant \in HomeVariants
    /\ hPc = "areaCode"
    /\ hParams \in HomeParams
    /\ hAreas = 0 /\ hNext = 0 /\ hPending = {} /\ hResults = <<>> /\ hFailed = {}
    /\ hEarly = FALSE /\ hTour = NoTour

\* getAreaCode settles (n = 0 also stands for its failure) and Home issues its
\* listing request(s)
HomeAreaCodeSettles ==
    /\ hPc = "areaCode"
    /\ \E n \in 0..MaxHomeAreas :
         /\ hAreas' = n
         /\ IF HomeMode(hVariant, hParams, n) = "all"
            THEN /\ hPc' = "batch"
                 /\ hPending' = BatchAt(hVariant, 0, n)
                 /\ hResults' = [r \in 1..n |-> NotSettled]
                 /\ hEarly' = IssuedEarly(BatchAt(hVariant, 0, n),
                                          [r \in 1..n |-> NotSettled], FALSE)
            ELSE /\ hPc' = "single"
                 /\ UNCHANGED <<hPending, hResults, hEarly>>
    /\ UNCHANGED <<hVariant, hParams, hNext, hFailed, hTour>>

\* the single searchKeyword / getAreaBasedList call returns or throws
HomeSingleSettles ==
    /\ hPc = "single"
    /\ \/ hTour' = TourError
       \/ \E k \in 0..MaxListItems, total \in {Undefined, 25}, rows \in {Undefined, 1} :
            LET filtered == HomeMode(hVariant, hParams, hAreas) = "search" /\ hParams.petFilter
                params == [numOfRows |-> IF filtered THEN FETCH_ROWS_FILTERED
                                         ELSE HOME_PAGE_SIZE,
                           pageNo |-> IF filtered THEN 1 ELSE hParams.pageNo]
                body == [numOfRows |-> rows, pageNo |-> Undefined, totalCount |-> total]
            IN  hTour' = [isNull |-> FALSE, error |-> FALSE, items |-> ItemsOf(1, k),
                          pagination |-> ListingPage(params, body, k)]
    /\ hPc' = "listed"
    /\ UNCHANGED <<hVariant, hParams, hAreas, hNext, hPending, hResults, hFailed, hEarly>>

\* one region's getAreaBasedList call of the merge settles
HomeRegionSettles ==
    /\ hPc = "batch"
    /\ \E r \in hPending :
         /\ hPending' = hPending \ {r}
         /\ \/ /\ hResults' = [hResults EXCEPT ![r] = RegionCatch(ListingFailure)]
               /\ hFailed' = hFailed \cup {r}
            \/ /\ \E k \in 0..MaxRegionItems :
                    hResults' = [hResults EXCEPT ![r] = RegionCatch(ListingOutcome(r, k))]
               /\ UNCHANGED hFailed
    /\ UNCHANGED <<hVariant, hPc, hParams, hAreas, hNext, hEarly, hTour>>

\* Promise.all of the requests in flight resolves (or rejects)
HomeBatchJoins ==
    /\ hPc = "batch"
    /\ hPending = {}
    /\ IF \E r \in 1..hAreas : hResults[r].status = "failed"
       THEN /\ hTour' = TourError
            /\ hPc' = "listed"
       ELSE IF hVariant = "batched" /\ hNext + AREA_BATCH_SIZE < hAreas
       THEN /\ hPc' = "delay"
            /\ UNCHANGED hTour
       ELSE /\ hTour' = MergeRegions(hResults, hAreas, hParams.sortBy, hParams.pageNo)
            /\ hPc' = "listed"
    /\ UNCHANGED <<hVariant, hParams, hAreas, hNext, hPending, hResults, hFailed, hEarly>>

\* a recomputation that only resets the page and keeps the upstream totals
PetFilteredPaginationStale(pagination, n) == [pagination EXCEPT !.pageNo = 1]

\* the pagination of tourData after filterToursByPet kept n items
PetFilteredPagination(pagination, n) ==
    LET pageSize == OrElse(pagination.numOfRows, 20)
    IN  [pagination EXCEPT !.pageNo = 1,
                           !.totalCount = n,
                           !.totalPages = Max(1, CeilDiv(n, pageSize))]

\* the pet stage: filterToursByPet keeps some of the listed items (those whose
\* resolved pet data pass) and the pagination is recomputed
HomePetFilter ==
    /\ hPc = "listed"
    /\ ~hTour.isNull /\ hParams.petFilter
    /\ \E kept \in SUBSET (1..Len(hTour.items)) :
         LET filteredItems == SelectSeq(hTour.items,
                                  LAMBDA it : \E i \in kept : hTour.items[i] = it)
         IN  hTour' = [hTour EXCEPT !.items = filteredItems,
                                    !.pagination =
                                        PetFilteredPagination(hTour.pagination,
                                                              Len(filteredItems))]
    /\ hPc' = "filtered"
    /\ UNCHANGED <<hVariant, hParams, hAreas, hNext, hPending, hResults, hFailed, hEarly>>

\* the inter-batch delay elapses and the loop issues the next batch
HomeDelayElapses ==
    /\ hPc = "delay"
    /\ hNext' = hNext + AREA_BATCH_SIZE
    /\ hPending' = BatchAt(hVariant, hNext + AREA_BATCH_SIZE, hAreas)
    /\ hEarly' = (hEarly \/ IssuedEarly(BatchAt(hVariant, hNext + AREA_BATCH_SIZE, hAreas),
                                        hResults, TRUE))
    /\ hPc' = "batch"
    /\ UNCHANGED <<hVariant, hParams, hAreas, hResults, hFailed, hTour>>

-----------------------------------------------------------------------------
(* page.tsx (Home) : the pet data of one listed item                       *)

InlineFields == {"chkpet", "chkpetsize", "chkpetplace", "chkpetfee", "petinfo"}

\* the field of PetTourInfo an inline field of the listing is copied to
InlineTarget(x) == IF x = "chkpet" THEN "chkpetleash" ELSE x

petSearchKeywords ==
    {<<"ban", "ryeo", "dong", "mul">>, <<"ban", "ryeo", "gyeon">>, <<"ban", "ryeo">>,
     <<"ae", "wan", "dong", "mul">>, <<"ae", "gyeon">>, <<"pes">>, <<"p", "e", "t">>}

textPetKeywords ==
    {<<"ban", "ryeo", "dong", "mul">>, <<"ban", "ryeo", "gyeon">>,
     <<"ae", "wan", "dong", "mul">>, <<"ae", "gyeon">>, <<"pes">>, <<"p", "e", "t">>}
textAllowKeywords ==
    {<<"dong", "ban">>, <<"ga", "neung">>, <<"ip", "jang">>, <<"chul", "ip">>,
     <<"heo", "yong">>}
textDisallowKeywords ==
    {<<"bul", "ga">>, <<"geum", "ji">>, <<"an", "doem">>, <<"eops", "seup", "ni", "da">>}

\* keyword.replace(/\s+/g, '')
removeSpaces(t) == SelectSeq(t, LAMBDA c : ~IsSpace(c))

\* the keyword of the URL: absent, or the trimmed text
Keywords ==
    {[present |-> FALSE, text |-> <<>>],
     [present |-> TRUE, text |-> <<>>],
     [present |-> TRUE, text |-> <<"hae", "un", "dae">>],
     [present |-> TRUE, text |-> <<"ban", "ryeo", "gyeon", " ", "ka", "pe">>],
     [present |-> TRUE, text |-> <<"P", "E", "T">>]}

\* JavaScript truthiness of the keyword
hasKeyword(kw) == kw.present /\ kw.text # <<>>

isPetSearchMode(kw) ==
    /\ hasKeyword(kw)
    /\ \E k \in petSearchKeywords :
         includes(toLowerCase(removeSpaces(kw.text)), removeSpaces(toLowerCase(k)))

isAutoPetSearch(ctx) == (ctx.petAllowed \/ ctx.petSizes # {}) /\ ~hasKeyword(ctx.keyword)

Titles ==
    {<<"hae", "un", "dae">>,
     <<"ae", "gyeon", " ", "dong", "ban", " ", "ga", "neung", " ", "ka", "pe">>,
     <<"ae", "gyeon", " ", "dong", "ban", " ", "bul", "ga">>}

Inlines ==
    {<<>>,
     [x \in {"chkpet"} |-> <<"dong", "ban", " ", "bul", "ga">>],
     [x \in {"chkpet"} |-> <<" ">>],
     [x \in {"chkpet", "chkpetsize"} |->
         IF x = "chkpet" THEN <<"dong", "ban", "ga", "neung">> ELSE <<"so", "hyeong", "gyeon">>]}

\* what getDetailPetTour can give for the item
EndpointOutcomes ==
    {[status |-> "throws", info |-> NullPet],
     [status |-> "returns", info |-> NullPet],
     [status |-> "returns", info |-> [isNull |-> FALSE, f |-> <<>>]],
     [status |-> "returns",
      info |-> [isNull |-> FALSE,
                f |-> [x \in {"acmpyTypeCd"} |-> <<"dong", "ban", "ga", "neung">>]]],
     [status |-> "returns",
      info |-> [isNull |-> FALSE,
                f |-> [x \in {"acmpyTypeCd"} |-> <<"dong", "ban", " ", "bul", "ga">>]]]}

ResolveContexts ==
    {c \in [variant : HomeVariants, keyword : Keywords, petAllowed : BOOLEAN,
            petSizes : {{}, {"small"}}] :
        /\ c.petAllowed \/ c.petSizes # {}
        /\ c.variant = "parallel" => ~c.keyword.present}

\* the record made up for a pet search result or a text guess
SyntheticInfo(prefix, text) ==
    [isNull |-> FALSE,
     f |-> [x \in {"petinfo", "acmpyTypeCd"} |->
              IF x = "petinfo" THEN prefix \o text ELSE <<"dong", "ban", "ga", "neung">>]]

SearchPrefix == <<"(", "geom", "saek", " ", "gyeol", "gwa", ")", " ">>
GuessPrefix == <<"(", "tek", "seu", "teu", " ", "gi", "ban", " ", "chu", "jeong", ")", " ">>

\* whether the listing response carries pet fields for the item
hasInlinePetData(variant, item) ==
    IF variant = "batched"
    THEN \E x \in DOMAIN item.inline : trim(item.inline[x]) # <<>>
    ELSE \E x \in DOMAIN item.inline : item.inline[x] # <<>>

InlineInfo(item) ==
    [isNull |-> FALSE,
     f |-> [y \in {InlineTarget(x) : x \in DOMAIN item.inline} |->
              item.inline[CHOOSE x \in DOMAIN item.inline : InlineTarget(x) = y]]]

\* step 3 of the batched copy: the guess from the title and overview
TextGuess(item) ==
    LET textToCheck == join(<<item.title, <<>>>>)
        lowerText == toLowerCase(textToCheck)
    IN  IF /\ someKeyword(textPetKeywords, lowerText)
           /\ someKeyword(textAllowKeywords, lowerText)
           /\ ~someKeyword(textDisallowKeywords, lowerText)
        THEN [source |-> "text", info |-> SyntheticInfo(GuessPrefix, slice(textToCheck, 0, 100))]
        ELSE [source |-> "none", info |-> NullPet]

NoInfo == [source |-> "unresolved", info |-> NullPet]

\* the map callback before its await: the result, or "unresolved" when it goes on
\* to call getDetailPetTour
ResolveSync(ctx, item) ==
    IF ctx.variant = "batched" /\ (isPetSearchMode(ctx.keyword) \/ isAutoPetSearch(ctx))
    THEN [source |-> "search", info |-> SyntheticInfo(SearchPrefix, item.title)]
    ELSE IF hasInlinePetData(ctx.variant, item)
    THEN [source |-> "inline", info |-> InlineInfo(item)]
    ELSE NoInfo

\* the map callback after getDetailPetTour has settled with outcome o
ResolveAfterEndpoint(ctx, item, o) ==
    IF ctx.variant = "batched"
    THEN IF o.status = "returns" /\ ~o.info.isNull
         THEN [source |-> "endpoint", info |-> o.info]
         ELSE TextGuess(item)
    ELSE IF o.status = "returns"
         THEN [source |-> "endpoint", info |-> o.info]
         ELSE [source |-> "none", info |-> NullPet]

ResolveIdle ==
    /\ rCtx = [variant |-> "batched", keyword |-> [present |-> FALSE, text |-> <<>>],
               petAllowed |-> TRUE, petSizes |-> {}]
    /\ rItem = [inline |-> <<>>, title |-> <<>>]
    /\ rPc = "idle" /\ rInfo = NoInfo /\ rKept = FALSE

ResolveInit ==
    /\ rCtx \in ResolveContexts
    /\ rItem \in [inline : Inlines, title : Titles]
    /\ rPc = "start" /\ rInfo = NoInfo /\ rKept = FALSE

\* the callback runs up to its return or to the await of getDetailPetTour
ResolveStarts ==
    /\ rPc = "start"
    /\ rInfo' = ResolveSync(rCtx, rItem)
    /\ rPc' = IF ResolveSync(rCtx, rItem) = NoInfo THEN "endpoint" ELSE "resolved"
    /\ UNCHANGED <<rCtx, rItem, rKept>>

\* getDetailPetTour settles and the callback returns
ResolveEndpointSettles ==
    /\ rPc = "endpoint"
    /\ \E o \in EndpointOutcomes : rInfo' = ResolveAfterEndpoint(rCtx, rItem, o)
    /\ rPc' = "resolved"
    /\ UNCHANGED <<rCtx, rItem, rKept>>

\* filterToursByPet decides on the item
ResolveFilters ==
    /\ rPc = "resolved"
    /\ rKept' = passesPetFilter(rInfo.info, rCtx.petAllowed, rCtx.petSizes)
    /\ rPc' = "done"
    /\ UNCHANGED <<rCtx, rItem, rInfo>>

-----------------------------------------------------------------------------
(* supabase-api.ts : bookmarks                                             *)
(* One user; a row is [content_id, id].  The table holds at most one row   *)
(* per (user, content) pair (UNIQUE constraint).                           *)

MaxContents == 2
MaxAddCalls == 2
MaxRemoves == 1

Contents == 1..MaxContents

NoRow == [isNull |-> TRUE, row |-> [content_id |-> 0, id |-> 0]]
RowOf(r) == [isNull |-> FALSE, row |-> r]

\* the row of the table for content c, NoRow if there is none
Lookup(table, c) ==
    IF \E r \in table : r.content_id = c
    THEN RowOf(CHOOSE r \in table : r.content_id = c)
    ELSE NoRow

\* getBookmark: the row, null for PGRST116 (no rows), null for any other error
getBookmark(read, table, c) ==
    IF read = "row" THEN Lookup(table, c) ELSE NoRow

\* an addBookmark that takes the unique violation for a failure
addBookmarkDuplicateFails(ins, inserted, got) ==
    IF ins = "inserted" THEN inserted ELSE NoRow

\* addBookmark: the inserted row; on error 23505 what getBookmark gives; else null
addBookmark(ins, inserted, got) ==
    IF ins = "inserted" THEN inserted
    ELSE IF ins = "duplicate" THEN got
    ELSE NoRow

BookmarkIdle ==
    /\ bTable = {} /\ bNextId = 1 /\ bCalls = 0 /\ bPc = "idle" /\ bArg = 1
    /\ bAtCall = NoRow /\ bIns = "none" /\ bRead = "none" /\ bRemoves = 0
    /\ bResult = NoRow

\* addBookmark(supabase, userId, contentId) has been called and awaits its insert
BookmarkInit ==
    /\ \E S \in SUBSET Contents : bTable = {[content_id |-> c, id |-> c] : c \in S}
    /\ bNextId = MaxContents + 1
    /\ bCalls = 1 /\ bPc = "insert" /\ bArg \in Contents
    /\ bAtCall = Lookup(bTable, bArg)
    /\ bIns = "none" /\ bRead = "none" /\ bRemoves = 0 /\ bResult = NoRow

\* the insert settles: a new row, the unique violation 23505, or another error
AddInsertSettles ==
    /\ bPc = "insert"
    /\ \/ /\ Lookup(bTable, bArg).isNull
          /\ bTable' = bTable \cup {[content_id |-> bArg, id |-> bNextId]}
          /\ bNextId' = bNextId + 1
          /\ bIns' = "inserted"
          /\ bResult' = addBookmark("inserted", RowOf([content_id |-> bArg, id |-> bNextId]),
                                    NoRow)
          /\ bPc' = "done"
       \/ /\ ~Lookup(bTable, bArg).isNull
          /\ bIns' = "duplicate"
          /\ bPc' = "select"
          /\ UNCHANGED <<bTable, bNextId, bResult>>
       \/ /\ bIns' = "error"
          /\ bResult' = addBookmark("error", NoRow, NoRow)
          /\ bPc' = "done"
          /\ UNCHANGED <<bTable, bNextId>>
    /\ UNCHANGED <<bCalls, bArg, bAtCall, bRead, bRemoves>>

\* the select of getBookmark settles and addBookmark returns what getBookmark gives
AddSelectSettles ==
    /\ bPc = "select"
    /\ \E read \in {"found", "error"} :
         LET ended == IF read = "error" THEN "error"
                      ELSE IF Lookup(bTable, bArg).isNull THEN "norow" ELSE "row"
         IN  /\ bRead' = ended
             /\ bResult' = addBookmark(bIns, NoRow, getBookmark(ended, bTable, bArg))
    /\ bPc' = "done"
    /\ UNCHANGED <<bTable, bNextId, bCalls, bArg, bAtCall, bIns, bRemoves>>

\* removeBookmark of another request deletes the row of a pair
OtherRemoves ==
    /\ bPc \in {"insert", "select", "done"}
    /\ bRemoves < MaxRemoves
    /\ \E c \in Contents : bTable' = {r \in bTable : r.content_id # c}
    /\ bRemoves' = bRemoves + 1
    /\ UNCHANGED <<bNextId, bCalls, bPc, bArg, bAtCall, bIns, bRead, bResult>>

\* the next addBookmark call
AddCalled ==
    /\ bPc = "done"
    /\ bCalls < MaxAddCalls
    /\ bCalls' = bCalls + 1
    /\ \E c \in Contents : bArg' = c /\ bAtCall' = Lookup(bTable, c)
    /\ bPc' = "insert" /\ bIns' = "none" /\ bRead' = "none" /\ bResult' = NoRow
    /\ UNCHANGED <<bTable, bNextId, bRemoves>>

-----------------------------------------------------------------------------
(* bookmark-button.tsx : BookmarkButton                                    *)
(* The user is signed in.  A setState call changes kState at once; the     *)
(* handlers and the button read what the last render captured (kRender).   *)
(* The store helpers catch every error and return null or false.           *)
(***************************************************************************)
MaxClicks == 2

TheRow == [content_id |-> 1, id |-> 1]
TableOf(row) == IF row THEN {TheRow} ELSE {}

\* removeBookmark: true unless the delete reported an error
removeBookmark(deleteError) == ~deleteError

ButtonIdle ==
    /\ kRow = FALSE /\ kCheck = "idle" /\ kToggles = <<>>
    /\ kState = [isBookmarked |-> FALSE, isLoading |-> TRUE, isToggling |-> FALSE]
    /\ kRender = kState

\* the component has mounted: first render done, checkBookmarkStatus awaits
\* getSupabaseUserId
ButtonInit ==
    /\ kRow \in BOOLEAN
    /\ kState = [isBookmarked |-> FALSE, isLoading |-> TRUE, isToggling |-> FALSE]
    /\ kRender = kState
    /\ kCheck = "userId" /\ kToggles = <<>>

\* React renders again with the current state
Rerender ==
    /\ kRender # kState
    /\ kRender' = kState
    /\ UNCHANGED <<kRow, kState, kCheck, kToggles>>

\* getSupabaseUserId of the status check settles
CheckUserIdSettles ==
    /\ kCheck = "userId"
    /\ \E found \in BOOLEAN :
         IF found THEN kCheck' = "getBookmark" /\ UNCHANGED kState
         ELSE kCheck' = "done" /\ kState' = [kState EXCEPT !.isLoading = FALSE]
    /\ UNCHANGED <<kRow, kRender, kToggles>>

\* getBookmark of the status check settles: setIsBookmarked(!!bookmark), finally
CheckGetBookmarkSettles ==
    /\ kCheck = "getBookmark"
    /\ \E read \in {"row", "error"} :
         kState' = [kState EXCEPT
                       !.isBookmarked = ~getBookmark(read, TableOf(kRow), 1).isNull,
                       !.isLoading = FALSE]
    /\ kCheck' = "done"
    /\ UNCHANGED <<kRow, kRender, kToggles>>

\* a click on the button as last rendered: the toggle button, not disabled;
\* handleToggleBookmark runs up to its first await
Click ==
    /\ Len(kToggles) < MaxClicks
    /\ ~kRender.isLoading /\ ~kRender.isToggling
    /\ kState' = [kState EXCEPT !.isToggling = TRUE]
    /\ kToggles' = Append(kToggles, [pc |-> "userId", isBookmarked |-> kRender.isBookmarked])
    /\ UNCHANGED <<kRow, kRender, kCheck>>

\* getSupabaseUserId of a toggle settles: the store operation is issued, or
\* the handler returns through finally
ToggleUserIdSettles(i) ==
    /\ kToggles[i].pc = "userId"
    /\ \E found \in BOOLEAN :
         IF found
         THEN /\ kToggles' = [kToggles EXCEPT ![i].pc = "store"]
              /\ UNCHANGED kState
         ELSE /\ kToggles' = [kToggles EXCEPT ![i].pc = "done"]
              /\ kState' = [kState EXCEPT !.isToggling = FALSE]
    /\ UNCHANGED <<kRow, kRender, kCheck>>

\* removeBookmark of a toggle settles
ToggleRemoveSettles(i) ==
    /\ kToggles[i].pc = "store" /\ kToggles[i].isBookmarked
    /\ \E deleteError \in BOOLEAN :
         /\ kRow' = (IF deleteError THEN kRow ELSE FALSE)
         /\ kState' = [kState EXCEPT
                          !.isBookmarked = IF removeBookmark(deleteError) THEN FALSE ELSE @,
                          !.isToggling = FALSE]
    /\ kToggles' = [kToggles EXCEPT ![i].pc = "done"]
    /\ UNCHANGED <<kRender, kCheck>>

\* addBookmark of a toggle settles
ToggleAddSettles(i) ==
    /\ kToggles[i].pc = "store" /\ ~kToggles[i].isBookmarked
    /\ \E ins \in {IF kRow THEN "duplicate" ELSE "inserted", "error"} :
       \E read \in {"row", "error"} :
         LET bookmark == addBookmark(ins, RowOf(TheRow), getBookmark(read, TableOf(kRow), 1))
         IN  /\ kRow' = (kRow \/ ins = "inserted")
             /\ kState' = [kState EXCEPT
                              !.isBookmarked = IF ~bookmark.isNull THEN TRUE ELSE @,
                              !.isToggling = FALSE]
    /\ kToggles' = [kToggles EXCEPT ![i].pc = "done"]
    /\ UNCHANGED <<kRender, kCheck>>

\* the add and remove operations of the button that are in flight
StoreOpsInFlight == {i \in 1..Len(kToggles) : kToggles[i].pc = "store"}

-----------------------------------------------------------------------------
(* naver-map.tsx : the initialisation effect, naver-map-script.tsx         *)
(***************************************************************************)
MaxLoadEvents == 2
MaxTicks == 3

\* an initializeMap that does not look at mapInstance.current
initializeMapUnguarded(mounted, naver, created) ==
    IF mounted /\ naver THEN created + 1 ELSE created

\* initializeMap: the number of instances created after the call
initializeMap(mounted, naver, created) ==
    IF mounted /\ created = 0 /\ naver THEN created + 1 ELSE created

MapInitIdle ==
    /\ nMounted = FALSE /\ nNaver = FALSE /\ nListener = FALSE
    /\ nTimeout = "none" /\ nInterval = "none" /\ nTicks = 0
    /\ nEvents = 0 /\ nCalls = 0 /\ nCreated = 0

\* the effect has run on mount: with the script already there it has called
\* initializeMap and returned, else it has registered the listener and the timeout
MapInitInit ==
    /\ nMounted = TRUE
    /\ nNaver \in BOOLEAN
    /\ nEvents = 0 /\ nInterval = "none" /\ nTicks = 0
    /\ IF nNaver
       THEN /\ nListener = FALSE /\ nTimeout = "none"
            /\ nCalls = 1 /\ nCreated = initializeMap(TRUE, TRUE, 0)
       ELSE /\ nListener = TRUE /\ nTimeout = "pending"
            /\ nCalls = 0 /\ nCreated = 0

\* the script of the maps API has run
ScriptRuns ==
    /\ ~nNaver
    /\ nNaver' = TRUE
    /\ UNCHANGED <<nMounted, nListener, nTimeout, nInterval, nTicks, nEvents, nCalls, nCreated>>

\* onLoad of a NaverMapScript dispatches 'naver-maps-loaded'
LoadEventFires ==
    /\ nNaver /\ nEvents < MaxLoadEvents
    /\ nEvents' = nEvents + 1
    /\ IF nListener
       THEN /\ nCalls' = nCalls + 1
            /\ nCreated' = initializeMap(nMounted, nNaver, nCreated)
       ELSE UNCHANGED <<nCalls, nCreated>>
    /\ UNCHANGED <<nMounted, nNaver, nListener, nTimeout, nInterval, nTicks>>

\* the 5-second timeout fires: without a map yet the polling starts
TimeoutFires ==
    /\ nTimeout = "pending"
    /\ nTimeout' = "fired"
    /\ nInterval' = IF nCreated = 0 THEN "running" ELSE nInterval
    /\ UNCHANGED <<nMounted, nNaver, nListener, nTicks, nEvents, nCalls, nCreated>>

\* a tick of the polling: with the API there it stops and calls initializeMap
PollTicks ==
    /\ nInterval = "running"
    /\ IF nNaver
       THEN /\ nInterval' = "cleared"
            /\ nCalls' = nCalls + 1
            /\ nCreated' = initializeMap(nMounted, nNaver, nCreated)
            /\ UNCHANGED nTicks
       ELSE /\ nTicks < MaxTicks
            /\ nTicks' = nTicks + 1
            /\ UNCHANGED <<nInterval, nCalls, nCreated>>
    /\ UNCHANGED <<nMounted, nNaver, nListener, nTimeout, nEvents>>

\* the polling is stopped 5 seconds after it began
PollStops ==
    /\ nInterval = "running"
    /\ nInterval' = "cleared"
    /\ UNCHANGED <<nMounted, nNaver, nListener, nTimeout, nTicks, nEvents, nCalls, nCreated>>

\* the component unmounts: the cleanup removes the listener and the timeout
Unmounts ==
    /\ nMounted
    /\ nMounted' = FALSE
    /\ nListener' = FALSE
    /\ nTimeout' = IF nTimeout = "pending" THEN "cleared" ELSE nTimeout
    /\ UNCHANGED <<nNaver, nInterval, nTicks, nEvents, nCalls, nCreated>>

-----------------------------------------------------------------------------
(* tour-filters.tsx, tour-search.tsx, tour-pagination.tsx : the URL query  *)
(* A query is [areaCode, contentTypeIds, petAllowed, petSizes, keyword,    *)
(* pageNo]; an absent parameter is 0, {}, FALSE, "" and page 1.            *)
(***************************************************************************)
MaxChanges == 2

AreaValues == {0, 1}
TypeIds == {12}
UrlSizes == {"small", "large"}
KeywordValues == {"", "k"}
PageValues == {1, 2}

Queries ==
    [areaCode : AreaValues, contentTypeIds : SUBSET TypeIds, petAllowed : BOOLEAN,
     petSizes : SUBSET UrlSizes, keyword : KeywordValues, pageNo : PageValues]

Given(updates, key, otherwise) ==
    IF key \in DOMAIN updates THEN updates[key] ELSE otherwise

\* the query updateFilters navigates to, params being the query it has read
updateFilters(params, updates) ==
    [areaCode |-> Given(updates, "areaCode", params.areaCode),
     contentTypeIds |-> Given(updates, "contentTypeIds", params.contentTypeIds),
     petAllowed |-> Given(updates, "petAllowed", params.petAllowed),
     petSizes |-> Given(updates, "petSizes", params.petSizes),
     keyword |-> params.keyword,
     pageNo |-> Given(updates, "pageNo", 1)]

handleAreaCodeChange(cur, value) ==
    updateFilters(cur, [areaCode |-> value, pageNo |-> 1])

handleContentTypeChange(cur, id, checked) ==
    updateFilters(cur, [contentTypeIds |-> IF checked THEN cur.contentTypeIds \cup {id}
                                           ELSE cur.contentTypeIds \ {id},
                        pageNo |-> 1])

handlePetAllowedChange(cur, checked) ==
    updateFilters(cur, [petAllowed |-> checked,
                        petSizes |-> IF checked THEN cur.petSizes ELSE {},
                        pageNo |-> 1])

\* a size handler that leaves petAllowed as it reads it
handlePetSizeChangeKeepsAllowed(cur, size, checked) ==
    updateFilters(cur, [petSizes |-> IF checked THEN cur.petSizes \cup {size}
                                     ELSE cur.petSizes \ {size},
                        pageNo |-> 1])

handlePetSizeChange(cur, size, checked) ==
    LET newSizes == IF checked THEN cur.petSizes \cup {size} ELSE cur.petSizes \ {size}
    IN  updateFilters(cur, [petSizes |-> newSizes,
                            petAllowed |-> IF newSizes # {} THEN TRUE ELSE cur.petAllowed,
                            pageNo |-> 1])

handleSearch(cur, keyword) == [cur EXCEPT !.keyword = keyword, !.pageNo = 1]

handlePageChange(cur, page) == [cur EXCEPT !.pageNo = page]

\* a non-empty petSizes implies petAllowed
SizesImplyAllowed(q) == q.petSizes # {} => q.petAllowed

UrlIdle ==
    /\ uSeen = [areaCode |-> 0, contentTypeIds |-> {}, petAllowed |-> FALSE,
                petSizes |-> {}, keyword |-> "", pageNo |-> 1]
    /\ uTarget = uSeen /\ uIntent = uSeen /\ uChanges = MaxChanges

\* the page is shown for a query in which sizes imply petAllowed
UrlInit ==
    /\ uSeen \in {q \in Queries : SizesImplyAllowed(q)}
    /\ uTarget = uSeen /\ uIntent = uSeen /\ uChanges = 0

\* a handler runs on the query the controls have read and navigates
Navigate(next, intended) ==
    /\ uChanges < MaxChanges
    /\ uTarget' = next
    /\ uIntent' = intended
    /\ uChanges' = uChanges + 1
    /\ UNCHANGED uSeen

AreaChanged ==
    \E v \in AreaValues :
        Navigate(handleAreaCodeChange(uSeen, v), handleAreaCodeChange(uIntent, v))

ContentTypeChanged ==
    \E id \in TypeIds : \E checked \in BOOLEAN :
        Navigate(handleContentTypeChange(uSeen, id, checked),
                 handleContentTypeChange(uIntent, id, checked))

PetAllowedChanged ==
    \E checked \in BOOLEAN :
        Navigate(handlePetAllowedChange(uSeen, checked),
                 handlePetAllowedChange(uIntent, checked))

PetSizeChanged ==
    \E size \in UrlSizes : \E checked \in BOOLEAN :
        Navigate(handlePetSizeChange(uSeen, size, checked),
                 handlePetSizeChange(uIntent, size, checked))

Searched ==
    \E k \in KeywordValues : Navigate(handleSearch(uSeen, k), handleSearch(uIntent, k))

PageChanged ==
    \E page \in PageValues :
        Navigate(handlePageChange(uSeen, page), handlePageChange(uIntent, page))

\* the navigation takes effect: the controls render with the new query
NavigationTakesEffect ==
    /\ uSeen # uTarget
    /\ uSeen' = uTarget
    /\ UNCHANGED <<uTarget, uIntent, uChanges>>

-----------------------------------------------------------------------------
(* tour-api.ts : coordinates, and naver-map.tsx : the marker loop          *)
(* A number is NaN or a non-negative integer; a coordinate in degrees is   *)
(* NaN or [whole, frac] with frac counted in 1/10000000 of a degree.       *)
(***************************************************************************)
Digits == <<"0", "1", "2", "3", "4", "5", "6", "7", "8", "9">>

IsDigit(c) == \E d \in 1..10 : Digits[d] = c
DigitValue(c) == (CHOOSE d \in 1..10 : Digits[d] = c) - 1

\* value of the longest prefix of digits, acc being the value read so far
RECURSIVE digitsPrefix(_, _)
digitsPrefix(t, acc) ==
    IF t # <<>> /\ IsDigit(Head(t))
    THEN digitsPrefix(Tail(t), acc * 10 + DigitValue(Head(t)))
    ELSE acc

parseFloat(t) ==
    LET u == trimStart(t)
    IN  IF u # <<>> /\ IsDigit(Head(u))
        THEN [nan |-> FALSE, n |-> digitsPrefix(u, 0)]
        ELSE [nan |-> TRUE, n |-> 0]

COORD_SCALE == 10000000

DivideBy(x, scale) ==
    IF x.nan THEN [nan |-> TRUE, whole |-> 0, frac |-> 0]
    ELSE [nan |-> FALSE, whole |-> x.n \div scale,
          frac |-> (x.n % scale) * (COORD_SCALE \div scale)]

\* a conversion dividing by one million (the scale divides COORD_SCALE)
convertByMillion(mapx, mapy) ==
    [lng |-> DivideBy(parseFloat(mapx), 1000000),
     lat |-> DivideBy(parseFloat(mapy), 1000000)]

convertKATECToWGS84(mapx, mapy) ==
    [lng |-> DivideBy(parseFloat(mapx), COORD_SCALE),
     lat |-> DivideBy(parseFloat(mapy), COORD_SCALE)]

\* lo <= d <= hi for whole degrees lo, hi; a comparison with NaN is false
Within(d, lo, hi) ==
    /\ ~d.nan
    /\ d.whole >= lo
    /\ d.whole < hi \/ (d.whole = hi /\ d.frac = 0)

\* the box around the Korean peninsula: 124..132 E, 33..39 N
isValidKoreanCoordinate(lng, lat) ==
    /\ Within(lng, 124, 132)
    /\ Within(lat, 33, 39)

MaxTours == 2

Chars(str) == CASE str = "" -> <<>>
                [] str = "0" -> <<"0">>
                [] str = "126978000" -> <<"1","2","6","9","7","8","0","0","0">>
                [] str = "1269780000" -> <<"1","2","6","9","7","8","0","0","0","0">>
                [] str = "1320000001" -> <<"1","3","2","0","0","0","0","0","0","1">>
                [] str = "1240000000" -> <<"1","2","4","0","0","0","0","0","0","0">>
                [] str = "37566500" -> <<"3","7","5","6","6","5","0","0">>
                [] str = "375665000" -> <<"3","7","5","6","6","5","0","0","0">>
                [] str = "329999999" -> <<"3","2","9","9","9","9","9","9","9">>
                [] str = "x" -> <<"x">>

MapXs == {Chars(x) : x \in {"", "0", "126978000", "1269780000", "1320000001", "1240000000", "x"}}
MapYs == {Chars(y) : y \in {"", "0", "37566500", "375665000", "329999999"}}

TourCoords == [mapx : MapXs, mapy : MapYs]

MapIdle == mkTours = <<>> /\ mkIdx = 0 /\ mkMarkers = {} /\ mkSkipped = {}

MapInit ==
    /\ mkTours \in UNION {[1..n -> TourCoords] : n \in 0..MaxTours}
    /\ mkIdx = 0 /\ mkMarkers = {} /\ mkSkipped = {}

\* the body of tours.forEach for the next tour: does it get a marker ?
GetsMarker(tour) ==
    IF tour.mapx = <<>> \/ tour.mapy = <<>> \/ tour.mapx = <<"0">> \/ tour.mapy = <<"0">>
    THEN FALSE
    ELSE LET coord == convertKATECToWGS84(tour.mapx, tour.mapy)
         IN  isValidKoreanCoordinate(coord.lng, coord.lat)

MarkerStep ==
    /\ mkIdx < Len(mkTours)
    /\ mkIdx' = mkIdx + 1
    /\ IF GetsMarker(mkTours[mkIdx + 1])
       THEN mkMarkers' = mkMarkers \cup {mkIdx + 1} /\ UNCHANGED mkSkipped
       ELSE mkSkipped' = mkSkipped \cup {mkIdx + 1} /\ UNCHANGED mkMarkers
    /\ UNCHANGED mkTours

-----------------------------------------------------------------------------
(* Specifications                                                          *)

nonClientVars  == <<petVars, statsVars, homeVars, resolveVars, bookmarkVars, pageVars,
                   mapVars, filterVars,
                   sizeVars,
                   topVars,
                   buttonVars,
                   urlVars,
                   mapInitVars>>
nonPetVars     == <<clientVars, statsVars, homeVars, resolveVars, bookmarkVars, pageVars,
                   mapVars, filterVars,
                   sizeVars,
                   topVars,
                   buttonVars,
                   urlVars,
                   mapInitVars>>
nonStatsVars   == <<clientVars, petVars, homeVars, resolveVars, bookmarkVars, pageVars,
                   mapVars, filterVars,
                   sizeVars,
                   topVars,
                   buttonVars,
                   urlVars,
                   mapInitVars>>
nonHomeVars    == <<clientVars, petVars, statsVars, resolveVars, bookmarkVars, pageVars,
                   mapVars, filterVars,
                   sizeVars,
                   topVars,
                   buttonVars,
                   urlVars,
                   mapInitVars>>
nonResolveVars == <<clientVars, petVars, statsVars, homeVars, bookmarkVars, pageVars,
                   mapVars, filterVars,
                   sizeVars,
                   topVars,
                   buttonVars,
                   urlVars,
                   mapInitVars>>
nonBookmarkVars == <<clientVars, petVars, statsVars, homeVars, resolveVars, pageVars,
                   mapVars, filterVars,
                   sizeVars,
                   topVars,
                   buttonVars,
                   urlVars,
                   mapInitVars>>
nonPageVars    == <<clientVars, petVars, statsVars, homeVars, resolveVars, bookmarkVars, mapVars, filterVars,
                   sizeVars,
                   topVars,
                   buttonVars,
                   urlVars,
                   mapInitVars>>
nonMapVars     == <<clientVars, petVars, statsVars, homeVars, resolveVars, bookmarkVars, pageVars,
                   filterVars,
                   sizeVars,
                   topVars,
                   buttonVars,
                   urlVars,
                   mapInitVars>>
nonFilterVars  == <<clientVars, petVars, statsVars, homeVars, resolveVars, bookmarkVars, pageVars,
                   mapVars,
                   sizeVars,
                   topVars,
                   buttonVars,
                   urlVars,
                   mapInitVars>>
nonSizeVars == <<clientVars, petVars, statsVars, homeVars, resolveVars, bookmarkVars,
                   pageVars, mapVars, filterVars,
                   topVars,
                   buttonVars,
                   urlVars,
                   mapInitVars>>
nonTopVars == <<clientVars, petVars, statsVars, homeVars, resolveVars, bookmarkVars,
                   pageVars, mapVars, filterVars, sizeVars,
                   buttonVars,
                   urlVars,
                   mapInitVars>>
nonButtonVars == <<clientVars, petVars, statsVars, homeVars, resolveVars, bookmarkVars,
                   pageVars, mapVars, filterVars, sizeVars, topVars,
                   urlVars,
                   mapInitVars>>
nonUrlVars == <<clientVars, petVars, statsVars, homeVars, resolveVars, bookmarkVars,
                   pageVars, mapVars, filterVars, sizeVars, topVars, buttonVars,
                   mapInitVars>>
nonMapInitVars == <<clientVars, petVars, statsVars, homeVars, resolveVars, bookmarkVars,
                   pageVars, mapVars, filterVars, sizeVars, topVars, buttonVars, urlVars>>

\* the upstream client: one operation under withRetry
Init == ClientInit /\ PetIdle /\ StatsIdle /\ HomeIdle /\ ResolveIdle /\ BookmarkIdle /\ PageIdle /\ MapIdle /\ FilterIdle /\ SizeIdle /\ TopIdle /\ ButtonIdle /\ UrlIdle /\ MapInitIdle
Next ==
    \/ LoopStep /\ UNCHANGED nonClientVars
    \/ BackoffElapsed /\ UNCHANGED nonClientVars
Spec == Init /\ [][Next]_vars

\* the pet-accommodation heuristic applied to one record
InitPet == ClientIdle /\ PetInit /\ StatsIdle /\ HomeIdle /\ ResolveIdle /\ BookmarkIdle /\ PageIdle /\ MapIdle /\ FilterIdle /\ SizeIdle /\ TopIdle /\ ButtonIdle /\ UrlIdle /\ MapInitIdle
NextPet ==
    \/ EvaluatePet /\ UNCHANGED nonPetVars
SpecPet == InitPet /\ [][NextPet]_vars

\* the statistics aggregator: one run of getStatsSummaryInternal
InitStats == ClientIdle /\ PetIdle /\ StatsInit /\ HomeIdle /\ ResolveIdle /\ BookmarkIdle /\ PageIdle /\ MapIdle /\ FilterIdle /\ SizeIdle /\ TopIdle /\ ButtonIdle /\ UrlIdle /\ MapInitIdle
NextStats ==
    \/ \E a \in Axes : AreaCodeFails(a) /\ UNCHANGED nonStatsVars
    \/ \E a \in Axes : AreaCodeReturns(a) /\ UNCHANGED nonStatsVars
    \/ \E a \in Axes : EntrySettles(a) /\ UNCHANGED nonStatsVars
    \/ \E a \in Axes : AxisReturns(a) /\ UNCHANGED nonStatsVars
    \/ SummaryReturns /\ UNCHANGED nonStatsVars
SpecStats == InitStats /\ [][NextStats]_vars

\* the listing stage of Home
InitHome == ClientIdle /\ PetIdle /\ StatsIdle /\ HomeInit /\ ResolveIdle /\ BookmarkIdle /\ PageIdle /\ MapIdle /\ FilterIdle /\ SizeIdle /\ TopIdle /\ ButtonIdle /\ UrlIdle /\ MapInitIdle
NextHome ==
    \/ HomeAreaCodeSettles /\ UNCHANGED nonHomeVars
    \/ HomeSingleSettles /\ UNCHANGED nonHomeVars
    \/ HomeRegionSettles /\ UNCHANGED nonHomeVars
    \/ HomeBatchJoins /\ UNCHANGED nonHomeVars
    \/ HomeDelayElapses /\ UNCHANGED nonHomeVars
    \/ HomePetFilter /\ UNCHANGED nonHomeVars
SpecHome == InitHome /\ [][NextHome]_vars

\* the pet data of one listed item and the filter decision on it
InitResolve == ClientIdle /\ PetIdle /\ StatsIdle /\ HomeIdle /\ ResolveInit /\ BookmarkIdle /\ PageIdle /\ MapIdle /\ FilterIdle /\ SizeIdle /\ TopIdle /\ ButtonIdle /\ UrlIdle /\ MapInitIdle
NextResolve ==
    \/ ResolveStarts /\ UNCHANGED nonResolveVars
    \/ ResolveEndpointSettles /\ UNCHANGED nonResolveVars
    \/ ResolveFilters /\ UNCHANGED nonResolveVars
SpecResolve == InitResolve /\ [][NextResolve]_vars

\* addBookmark calls against the bookmarks table, with removals by other requests
InitBookmark ==
    ClientIdle /\ PetIdle /\ StatsIdle /\ HomeIdle /\ ResolveIdle /\ BookmarkInit /\ PageIdle /\ MapIdle /\ FilterIdle /\ SizeIdle /\ TopIdle /\ ButtonIdle /\ UrlIdle /\ MapInitIdle
NextBookmark ==
    \/ AddInsertSettles /\ UNCHANGED nonBookmarkVars
    \/ AddSelectSettles /\ UNCHANGED nonBookmarkVars
    \/ OtherRemoves /\ UNCHANGED nonBookmarkVars
    \/ AddCalled /\ UNCHANGED nonBookmarkVars
SpecBookmark == InitBookmark /\ [][NextBookmark]_vars

\* one page built by getAreaBasedList or searchKeyword
InitPage ==
    ClientIdle /\ PetIdle /\ StatsIdle /\ HomeIdle /\ ResolveIdle /\ BookmarkIdle /\ PageInit
    /\ MapIdle /\ FilterIdle /\ SizeIdle /\ TopIdle /\ ButtonIdle /\ UrlIdle /\ MapInitIdle
NextPage ==
    \/ PageReturns /\ UNCHANGED nonPageVars
SpecPage == InitPage /\ [][NextPage]_vars

\* the marker loop of the map over a list of tours
InitMap ==
    /\ ClientIdle /\ PetIdle /\ StatsIdle /\ HomeIdle /\ ResolveIdle /\ BookmarkIdle
    /\ PageIdle /\ MapInit /\ FilterIdle /\ SizeIdle /\ TopIdle /\ ButtonIdle /\ UrlIdle /\ MapInitIdle
NextMap ==
    \/ MarkerStep /\ UNCHANGED nonMapVars
SpecMap == InitMap /\ [][NextMap]_vars

\* filterToursByPet applied to a list, and again to its result
InitFilter ==
    /\ ClientIdle /\ PetIdle /\ StatsIdle /\ HomeIdle /\ ResolveIdle /\ BookmarkIdle
    /\ PageIdle /\ MapIdle /\ FilterInit /\ SizeIdle /\ TopIdle /\ ButtonIdle /\ UrlIdle /\ MapInitIdle
NextFilter ==
    \/ FilterOnce /\ UNCHANGED nonFilterVars
    \/ FilterAgain /\ UNCHANGED nonFilterVars
SpecFilter == InitFilter /\ [][NextFilter]_vars

\* the size filter applied to one record
InitSize ==
    /\ ClientIdle /\ PetIdle /\ StatsIdle /\ HomeIdle /\ ResolveIdle /\ BookmarkIdle
    /\ PageIdle /\ MapIdle /\ FilterIdle /\ SizeInit /\ TopIdle /\ ButtonIdle /\ UrlIdle /\ MapInitIdle
NextSize ==
    \/ EvaluateSize /\ UNCHANGED nonSizeVars
SpecSize == InitSize /\ [][NextSize]_vars

\* the top list of one axis
InitTop ==
    /\ ClientIdle /\ PetIdle /\ StatsIdle /\ HomeIdle /\ ResolveIdle /\ BookmarkIdle
    /\ PageIdle /\ MapIdle /\ FilterIdle /\ SizeIdle /\ TopInit /\ ButtonIdle /\ UrlIdle /\ MapInitIdle
NextTop ==
    \/ RankTop /\ UNCHANGED nonTopVars
SpecTop == InitTop /\ [][NextTop]_vars

\* one bookmark button
InitButton ==
    /\ ClientIdle /\ PetIdle /\ StatsIdle /\ HomeIdle /\ ResolveIdle /\ BookmarkIdle
    /\ PageIdle /\ MapIdle /\ FilterIdle /\ SizeIdle /\ TopIdle /\ ButtonInit /\ UrlIdle /\ MapInitIdle
NextButton ==
    \/ Rerender /\ UNCHANGED nonButtonVars
    \/ CheckUserIdSettles /\ UNCHANGED nonButtonVars
    \/ CheckGetBookmarkSettles /\ UNCHANGED nonButtonVars
    \/ Click /\ UNCHANGED nonButtonVars
    \/ \E i \in 1..Len(kToggles) : ToggleUserIdSettles(i) /\ UNCHANGED nonButtonVars
    \/ \E i \in 1..Len(kToggles) : ToggleRemoveSettles(i) /\ UNCHANGED nonButtonVars
    \/ \E i \in 1..Len(kToggles) : ToggleAddSettles(i) /\ UNCHANGED nonButtonVars
SpecButton == InitButton /\ [][NextButton]_vars

\* the controls of the listing page and the URL
InitUrl ==
    /\ ClientIdle /\ PetIdle /\ StatsIdle /\ HomeIdle /\ ResolveIdle /\ BookmarkIdle
    /\ PageIdle /\ MapIdle /\ FilterIdle /\ SizeIdle /\ TopIdle /\ ButtonIdle /\ UrlInit /\ MapInitIdle
NextUrl ==
    \/ AreaChanged /\ UNCHANGED nonUrlVars
    \/ ContentTypeChanged /\ UNCHANGED nonUrlVars
    \/ PetAllowedChanged /\ UNCHANGED nonUrlVars
    \/ PetSizeChanged /\ UNCHANGED nonUrlVars
    \/ Searched /\ UNCHANGED nonUrlVars
    \/ PageChanged /\ UNCHANGED nonUrlVars
    \/ NavigationTakesEffect /\ UNCHANGED nonUrlVars
SpecUrl == InitUrl /\ [][NextUrl]_vars

\* the initialisation of the map of one mounted component
InitMapInit ==
    /\ ClientIdle /\ PetIdle /\ StatsIdle /\ HomeIdle /\ ResolveIdle /\ BookmarkIdle
    /\ PageIdle /\ MapIdle /\ FilterIdle /\ SizeIdle /\ TopIdle /\ ButtonIdle /\ UrlIdle
    /\ MapInitInit
NextMapInit ==
    \/ ScriptRuns /\ UNCHANGED nonMapInitVars
    \/ LoadEventFires /\ UNCHANGED nonMapInitVars
    \/ TimeoutFires /\ UNCHANGED nonMapInitVars
    \/ PollTicks /\ UNCHANGED nonMapInitVars
    \/ PollStops /\ UNCHANGED nonMapInitVars
    \/ Unmounts /\ UNCHANGED nonMapInitVars
SpecMapInit == InitMapInit /\ [][NextMapInit]_vars

-----------------------------------------------------------------------------
(* Claims about the upstream client (checked under Spec)                   *)

\* C1: a client-class failure (HTTP 4xx, a 4xx-class result code, a malformed
\* payload) is never retried: once an attempt has seen one, the operation has
\* failed; it neither waits for a backoff nor calls again.
C1_ClientFailureNotRetried ==
    ClientClass(lastResp) => (pc = "done" /\ outcome.threw)

\* C2 as stated: an operation makes at most 3 attempts in total.
C2_AtMostThreeAttempts == calls <= 3

\* C2 as amended: an operation makes at most 4 attempts in total (the first call
\* and up to 3 retries), with at most 3 backoff waits between them; one that
\* has stopped after a failure has made one attempt more than it has waited.
C2_AtMostFourAttempts ==
    /\ calls <= 4
    /\ Len(waits) <= 3
    /\ (pc = "done" /\ outcome.threw) => calls = Len(waits) + 1

\* an operation that failed on its fourth attempt after three retryable failures
C2_Witness ==
    pc = "done" /\ outcome.threw /\ calls = 4 /\ Len(waits) = 3 /\ RetryableClass(lastResp)

\* C4: the error surfaced by a failed operation carries the upstream status code
\* whenever one was known (the HTTP status or the non-success result code),
\* together with the original cause.
C4_StatusCodeCarried ==
    (pc = "done" /\ outcome.threw /\ KnownStatus(lastResp) # Undefined)
        => (outcome.err.statusCode = KnownStatus(lastResp) /\ outcome.err.origCls # "none")

\* C5: without an API key the operation fails on its first attempt, at once and
\* before any network call: it is never called a second time and never waits.
C5_MissingKeyFailsAtOnce ==
    ~apiKey => /\ fetches = 0
               /\ calls <= 1
               /\ calls = 1 => (pc = "done" /\ outcome.threw)

\* C15: every page returned by getAreaBasedList or searchKeyword has
\* totalPages = ceil(totalCount / numOfRows), also when the envelope omits its
\* count fields (numOfRows then is the requested size or 10, totalCount the
\* number of items received).
C15_TotalPagesIsCeil ==
    pgPc = "returned" =>
        /\ pgOut.numOfRows > 0
        /\ pgOut.totalCount >= 0
        /\ pgOut.totalPages * pgOut.numOfRows >= pgOut.totalCount
        /\ (pgOut.totalPages - 1) * pgOut.numOfRows < pgOut.totalCount
               \/ (pgOut.totalCount = 0 /\ pgOut.totalPages = 0)
        /\ pgBody.totalCount = Undefined => pgOut.totalCount = pgItems
        /\ pgBody.numOfRows = Undefined =>
              pgOut.numOfRows = (IF pgParams.numOfRows = Undefined THEN 10
                                 ELSE pgParams.numOfRows)

\* an envelope without count fields: two items at one row per page are two pages
C15_Witness ==
    /\ pgPc = "returned"
    /\ pgBody.totalCount = Undefined /\ pgBody.numOfRows = Undefined
    /\ pgParams.numOfRows = 1 /\ pgItems = 2
    /\ pgOut.totalCount = 2 /\ pgOut.totalPages = 2

\* C24: the wait before the k-th retry (k = 1, 2, ...) is 1000 * 2^(k-1) ms
\* capped at 4000 ms: the waits start at 1000 ms, never decrease from one
\* retry to the next, and never exceed 4000 ms.
C24_BackoffDoublesToCap ==
    /\ \A k \in 1..Len(waits) :
          /\ waits[k] = (IF 1000 * Pow2(k - 1) < 4000 THEN 1000 * Pow2(k - 1) ELSE 4000)
          /\ waits[k] <= 4000
    /\ Len(waits) >= 1 => waits[1] = 1000
    /\ \A k \in 1..(Len(waits) - 1) : waits[k] <= waits[k + 1]
    /\ Len(waits) = (IF pc = "backoff" THEN attempt + 1 ELSE attempt)

\* three retries: the third wait has reached the cap
C24_Witness ==
    /\ pc = "call" /\ attempt = 3
    /\ waits = <<1000, 2000, 4000>>

-----------------------------------------------------------------------------
(* Claims about coordinates (checked under SpecMap)                        *)
(***************************************************************************)
Passed(i) == i <= mkIdx

\* C16, as stated: the pair mapx "126978000", mapy "37566500" is accepted
\* (it gets a marker), and a tour with mapx "0" gets no marker.
C16_ExamplePairAccepted ==
    \A i \in 1..Len(mkTours) :
        Passed(i) =>
            /\ (mkTours[i].mapx = Chars("126978000") /\ mkTours[i].mapy = Chars("37566500"))
                    => i \in mkMarkers
            /\ mkTours[i].mapx = Chars("0") => i \notin mkMarkers

\* C16, amended: a tour gets a marker exactly when both texts are present,
\* neither is "0", and the pair divided by 10000000 lies in the box
\* 124..132 E, 33..39 N.  The pair "1269780000", "375665000" converts to
\* 126.978, 37.5665 and is accepted; "126978000", "37566500" converts to
\* 12.6978, 3.75665 and is rejected; mapx "0" is rejected.
C16_MarkerIffInsideBox ==
    \A i \in 1..Len(mkTours) :
        Passed(i) =>
            LET x == parseFloat(mkTours[i].mapx)
                y == parseFloat(mkTours[i].mapy)
                inside == /\ ~x.nan /\ ~y.nan
                          /\ x.n >= 124 * COORD_SCALE /\ x.n <= 132 * COORD_SCALE
                          /\ y.n >= 33 * COORD_SCALE /\ y.n <= 39 * COORD_SCALE
            IN  /\ i \in mkMarkers <=> inside
                /\ i \in mkSkipped <=> ~inside
                /\ (mkTours[i].mapx = Chars("1269780000") /\ mkTours[i].mapy = Chars("375665000"))
                        => i \in mkMarkers
                /\ (mkTours[i].mapx = Chars("126978000") /\ mkTours[i].mapy = Chars("37566500"))
                        => i \notin mkMarkers
                /\ mkTours[i].mapx = Chars("0") => i \notin mkMarkers

\* a list whose first tour lies in Seoul and whose second has mapx "0":
\* one marker, one tour skipped
C16_Witness ==
    /\ Len(mkTours) = 2 /\ mkIdx = 2
    /\ mkTours[1].mapx = Chars("1269780000") /\ mkTours[1].mapy = Chars("375665000")
    /\ mkTours[2].mapx = Chars("0")
    /\ mkMarkers = {1} /\ mkSkipped = {2}

-----------------------------------------------------------------------------
(* Claims about the pet-accommodation heuristic (checked under SpecPet)    *)

HasDisallowKeyword(p) == someKeyword(DISALLOW_KEYWORDS, toLowerCase(mergedTextOf(p)))
HasAllowKeyword(p) == someKeyword(ALLOW_KEYWORDS, toLowerCase(mergedTextOf(p)))

\* the accompaniment-type field holds an allow keyword and no disallow keyword
TypeCdAllows(p) ==
    /\ "acmpyTypeCd" \in DOMAIN p.f
    /\ someKeyword(ALLOW_KEYWORDS, toLowerCase(p.f["acmpyTypeCd"]))
    /\ ~someKeyword(DISALLOW_KEYWORDS, toLowerCase(p.f["acmpyTypeCd"]))

OnlyFieldIsYes(p) ==
    /\ ~p.isNull
    /\ Cardinality(DOMAIN p.f) = 1
    /\ \A x \in DOMAIN p.f : toLowerCase(p.f[x]) \in {<<"y">>, <<"y", "e", "s">>}

\* C17: the text 'Y' or 'yes', in any letter case, is classified as
\* pets-allowed by isPetAllowedFromText, and isPetAllowed returns true for a
\* record whose only populated field is such a text.
C17_YesIsAllowed ==
    (petPc = "evaluated" /\ OnlyFieldIsYes(petInput))
        => /\ petResult = TRUE
           /\ \A x \in DOMAIN petInput.f : isPetAllowedFromText(petInput.f[x])

\* no field of the record holds anything but white space
NothingPopulated(p) == \A x \in DOMAIN p.f : trim(p.f[x]) = <<>>

\* C20: isPetAllowed returns false for every empty or absent pet-info: a null
\* or undefined record, and a record in which no text field is populated.
C20_EmptyIsNotAllowed ==
    (petPc = "evaluated" /\ (petInput.isNull \/ NothingPopulated(petInput)))
        => petResult = FALSE

\* a record whose two fields are the empty text and a blank, judged not allowed
C20_Witness ==
    /\ petPc = "evaluated" /\ ~petInput.isNull
    /\ Cardinality(DOMAIN petInput.f) = 2
    /\ {petInput.f[x] : x \in DOMAIN petInput.f} = {<<>>, <<" ">>}
    /\ petResult = FALSE

-----------------------------------------------------------------------------
(* Claims about the size filter (checked under SpecSize)                   *)
(***************************************************************************)
\* the record has a size text field holding a keyword of the category
HoldsKeywordOf(p, size) ==
    /\ ~p.isNull /\ "chkpetsize" \in DOMAIN p.f
    /\ \E k \in PET_SIZE_KEYWORDS[size] :
          includes(toLowerCase(p.f["chkpetsize"]), toLowerCase(k))

\* C21: the size filter matches every record when the requested-size set is
\* empty; for a non-empty set it matches exactly when the size text field
\* holds, case-insensitively, a keyword of at least one requested category,
\* and never when the field is absent.
C21_SizeMatchesIffKeyword ==
    szPc = "evaluated" =>
        /\ szSizes = {} => szResult = TRUE
        /\ szSizes # {} =>
              (szResult <=> \E size \in szSizes : HoldsKeywordOf(szInput, size))
        /\ (szSizes # {} /\ (szInput.isNull \/ "chkpetsize" \notin DOMAIN szInput.f))
              => szResult = FALSE

\* small and large requested, the text names small and medium: a match
C21_Witness ==
    /\ szPc = "evaluated" /\ szSizes = {"small", "large"}
    /\ HoldsKeywordOf(szInput, "small") /\ ~HoldsKeywordOf(szInput, "large")
    /\ szResult = TRUE

-----------------------------------------------------------------------------
(* Claims about the list filter (checked under SpecFilter)                 *)
(***************************************************************************)
\* the result holds exactly the items of the list whose position is in Q, each
\* unchanged, in the order of the list
ResultIsExactly(result, Q) ==
    /\ {result[j].contentid : j \in 1..Len(result)} = Q
    /\ Len(result) = Cardinality(Q)
    /\ \A j \in 1..Len(result) : result[j] = fItems[result[j].contentid]
    /\ \A j, k \in 1..Len(result) : j < k => result[j].contentid < result[k].contentid

SizeRequestedAndMissed(p) ==
    fOpts.petSizes # {} /\ ~isPetSizeMatch(p, fOpts.petSizes)

\* C18, as stated: the items returned are exactly those for which the filter
\* is disabled or (the accommodation is allowed and, when a size filter is
\* requested, the size matches).
C18_ExactlyAllowedAndSized ==
    fPc \in {"once", "twice"} =>
        ResultIsExactly(fOut,
            {i \in 1..Len(fItems) :
                \/ ~fOpts.petAllowed /\ fOpts.petSizes = {}
                \/ isPetAllowed(fItems[i].petInfo)
                      /\ ~SizeRequestedAndMissed(fItems[i].petInfo)})

\* C18, amended: the items returned are exactly those for which no pet filter
\* is requested or (the accommodation is allowed, when the allowed filter is
\* requested, and the size matches, when a size filter is requested): a
\* size-only filter does not ask for an allowed accommodation.
C18_ExactlyRequestedPredicates ==
    fPc \in {"once", "twice"} =>
        ResultIsExactly(fOut,
            {i \in 1..Len(fItems) :
                \/ ~fOpts.petAllowed /\ fOpts.petSizes = {}
                \/ (fOpts.petAllowed => isPetAllowed(fItems[i].petInfo))
                      /\ ~SizeRequestedAndMissed(fItems[i].petInfo)})

\* both filters requested over an allowed small item and a refused large one:
\* the first is returned alone
C18_Witness ==
    /\ fPc = "once" /\ Len(fItems) = 2
    /\ fOpts = [petAllowed |-> TRUE, petSizes |-> {"small"}]
    /\ isPetAllowed(fItems[1].petInfo) /\ ~isPetAllowed(fItems[2].petInfo)
    /\ fOut = <<fItems[1]>>

\* C19: applying filterToursByPet to its own result with the same options
\* returns that result again.
C19_FilterIdempotent == fPc = "twice" => fOut2 = fOut

\* a filter that dropped an item the first time and none the second
C19_Witness ==
    /\ fPc = "twice" /\ Len(fItems) = 2 /\ Len(fOut) = 1 /\ fOut2 = fOut

-----------------------------------------------------------------------------
(* Claims about the statistics aggregator (checked under SpecStats)        *)

\* C6 as stated: the count queries are issued in fixed-size batches, so the
\* number in flight never exceeds the batch size.
C6_InFlightWithinBatch == InFlight <= AREA_BATCH_SIZE

\* C6 as amended: the aggregator does not batch. As soon as an axis has its
\* region list it issues every one of its count queries (one per region and
\* category) at once, with no delay between them, so up to regions x categories
\* count queries per axis are in flight at the same time.
C6_AllQueriesAtOnce ==
    /\ \A a \in Axes :
         axis[a].pc \in {"counting", "done"}
             => axis[a].issued = Entries(a, axis[a].n) \X Subs(a, axis[a].n)
    /\ InFlight <= 2 * MaxAreas * NumTypes

\* both axes have all their queries in flight, more than a batch of the listing
C6_Witness ==
    /\ \A a \in Axes : axis[a].pc = "counting" /\ axis[a].n = MaxAreas
    /\ InFlight = 2 * MaxAreas * NumTypes
    /\ InFlight > AREA_BATCH_SIZE

AxisReported(x, top) ==
    /\ Len(top) = Min(3, Cardinality(DOMAIN x.count))
    /\ \A i \in 1..Len(top) : top[i].count = x.count[top[i].code]

\* C11: the count of a region is the sum of the totals returned by its count
\* queries that succeeded; a failed count query adds zero and fails neither the
\* region (it is in the region stats with its count) nor the region axis.
C11_RegionCountSumsSuccesses ==
    LET x == axis["region"]
    IN  /\ x.pc = "failed" => x.issued = {}
        /\ \A e \in DOMAIN x.count :
              x.count[e] # Pending =>
                  x.count[e] = SumOver([s \in x.ok[e] |-> UpstreamTotal(e, s)], x.ok[e])
        /\ x.pc = "done" => Len(StatsOf(x)) = x.n

\* a region returned with the total of its one successful query, another having failed
C11_Witness ==
    LET x == axis["region"]
    IN  /\ x.pc = "done"
        /\ \E e \in DOMAIN x.count :
              /\ x.ok[e] # {} /\ x.ok[e] # Subs("region", x.n)
              /\ x.count[e] > 0

\* C22: in every computed RegionStats or TypeStats array the percentages sum
\* to 100, within the rounding of one unit for each entry, when the total
\* count is positive, and every percentage is 0 when the total count is 0.
C22_PercentagesSumTo100 ==
    \A a \in Axes :
        axis[a].pc = "done" =>
            LET x == axis[a]
                totalCount == SumOver(x.count, DOMAIN x.count)
                sum == SumOver(x.pct, DOMAIN x.pct)
            IN  /\ DOMAIN x.pct = DOMAIN x.count
                /\ totalCount > 0 =>
                      /\ sum <= 100 * PCT_UNIT
                      /\ sum > 100 * PCT_UNIT - Cardinality(DOMAIN x.pct)
                      /\ \A e \in DOMAIN x.pct :
                            /\ x.pct[e] * totalCount <= x.count[e] * 100 * PCT_UNIT
                            /\ (x.pct[e] + 1) * totalCount > x.count[e] * 100 * PCT_UNIT
                /\ totalCount = 0 => \A e \in DOMAIN x.pct : x.pct[e] = 0

\* a region array with counts 2 and 1: two thirds and one third, the sum one
\* unit short of 100
C22_Witness ==
    LET x == axis["region"]
    IN  /\ x.pc = "done" /\ x.n = 2
        /\ x.count[1] = 2 /\ x.count[2] = 1
        /\ x.pct[1] + x.pct[2] = 100 * PCT_UNIT - 1

\* C23 (checked under SpecTop): the top list holds the (at most) 3 entries
\* with the highest counts, in descending order of count, with ranks 1, 2, 3;
\* among entries of equal count the one occurring first in the input is
\* ranked first.  Counts 5, 50, 20, 5 yield 50, 20 and the first 5.
C23_TopThreeStable ==
    tpPc = "ranked" =>
        LET n == Len(tpStats)
            listed == {tpOut[i].code : i \in 1..Len(tpOut)}
        IN  /\ Len(tpOut) = (IF n < 3 THEN n ELSE 3)
            /\ \A i \in 1..Len(tpOut) :
                  /\ tpOut[i].rank = i
                  /\ tpOut[i].code \in 1..n
                  /\ tpOut[i].count = tpStats[tpOut[i].code].count
            /\ \A i, j \in 1..Len(tpOut) :
                  i < j => \/ tpOut[i].count > tpOut[j].count
                           \/ /\ tpOut[i].count = tpOut[j].count
                              /\ tpOut[i].code < tpOut[j].code
            /\ \A e \in (1..n) \ listed : \A i \in 1..Len(tpOut) :
                  \/ tpStats[e].count < tpOut[i].count
                  \/ tpStats[e].count = tpOut[i].count /\ tpOut[i].code < e
            /\ [e \in 1..n |-> tpStats[e].count] = <<5, 50, 20, 5>>
                  => [i \in 1..Len(tpOut) |-> tpOut[i].code] = <<2, 3, 1>>

\* the counts 5, 50, 20, 5 ranked: 50, 20 and the first 5
C23_Witness ==
    /\ tpPc = "ranked"
    /\ [e \in 1..Len(tpStats) |-> tpStats[e].count] = <<5, 50, 20, 5>>
    /\ [i \in 1..Len(tpOut) |-> tpOut[i].count] = <<50, 20, 5>>
    /\ tpOut[3].code = 1 /\ tpOut[3].rank = 3

\* C27: in every summary returned, the grand total is never smaller than the
\* count of any entry listed in topRegions, including when individual count
\* queries or a whole axis fail.
C27_TotalCoversTopRegions ==
    sPc = "done" =>
        \A i \in 1..Len(sSummary.topRegions) :
            sSummary.topRegions[i].count <= sSummary.totalCount

\* C9: when the collection of an axis fails entirely, the summary is still
\* returned: the failed axis yields an empty list and the axis that succeeded
\* is reported.
C9_SummarySurvivesAxisFailure ==
    sPc = "done" =>
        /\ ~sSummary.threw
        /\ axis["region"].pc = "failed" => sSummary.topRegions = <<>>
        /\ axis["type"].pc = "failed" => sSummary.topTypes = <<>>
        /\ axis["region"].pc = "done" => AxisReported(axis["region"], sSummary.topRegions)
        /\ axis["type"].pc = "done" => AxisReported(axis["type"], sSummary.topTypes)

\* a summary returned although the region axis failed, with the categories reported
C9_Witness ==
    /\ sPc = "done" /\ ~sSummary.threw
    /\ axis["region"].pc = "failed" /\ axis["type"].pc = "done"
    /\ sSummary.topRegions = <<>> /\ Len(sSummary.topTypes) > 0
    /\ sSummary.totalCount > 0

-----------------------------------------------------------------------------
(* Claims about the listing stage of Home (checked under SpecHome)         *)

\* C7: with no region selected the regions are fetched in batches of at most 3:
\* never more than 3 requests in flight, and no request of a later batch issued
\* before the batch before it has settled and the inter-batch delay has elapsed.
C7_BatchesOfThree == Cardinality(hPending) <= AREA_BATCH_SIZE /\ ~hEarly

ItemSet(items) == {items[i] : i \in 1..Len(items)}

\* C10: in the all-regions merge a failed region contributes an empty item list
\* and never aborts the listing: the merge of the other regions is returned.
C10_FailedRegionYieldsEmpty ==
    (hPc = "listed" /\ HomeMode(hVariant, hParams, hAreas) = "all") =>
        /\ ~hTour.error /\ ~hTour.isNull
        /\ \A r \in hFailed : hResults[r].items = <<>>
        /\ hTour.pagination.totalCount
             = SumSeq([r \in 1..hAreas |-> IF r \in hFailed THEN 0 ELSE Len(hResults[r].items)])
        /\ hParams.pageNo = 1 =>
             ItemSet(hTour.items)
               = UNION {ItemSet(hResults[r].items) : r \in (1..hAreas) \ hFailed}

\* a merged listing returned although a region failed, holding another region's items
C10_Witness ==
    /\ hPc = "listed" /\ HomeMode(hVariant, hParams, hAreas) = "all"
    /\ hFailed # {} /\ ~hTour.error
    /\ Len(hTour.items) > 0

\* C14 as stated: after the pet filter the pagination is recomputed from the
\* filtered set: totalCount is the number of filtered items and totalPages is
\* ceil(filtered count / page size).
C14_PagesAreCeilOfFiltered ==
    hPc = "filtered" =>
        /\ hTour.pagination.totalCount = Len(hTour.items)
        /\ hTour.pagination.totalPages * hTour.pagination.numOfRows >= Len(hTour.items)
        /\ (hTour.pagination.totalPages - 1) * hTour.pagination.numOfRows < Len(hTour.items)

\* C14 as amended: after the pet filter totalCount is the number of filtered
\* items, pageNo is 1 and totalPages is ceil(filtered count / page size), but
\* never less than 1: an empty filtered set has one page.
C14_PagesAreCeilOfFilteredAtLeastOne ==
    hPc = "filtered" =>
        LET p == hTour.pagination
            n == Len(hTour.items)
        IN  /\ p.totalCount = n
            /\ p.pageNo = 1
            /\ p.totalPages >= 1
            /\ p.totalPages * p.numOfRows >= n
            /\ n > 0 => (p.totalPages - 1) * p.numOfRows < n
            /\ n = 0 => p.totalPages = 1

\* two items kept under a page size of one: two pages
C14_Witness ==
    /\ hPc = "filtered"
    /\ Len(hTour.items) = 2 /\ hTour.pagination.numOfRows = 1
    /\ hTour.pagination.totalCount = 2 /\ hTour.pagination.totalPages = 2

-----------------------------------------------------------------------------
(* Claims about the pet data of a listed item (checked under SpecResolve)  *)

\* the listing response carries a non-blank pet field for the item
InlinePresent(item) == \E x \in DOMAIN item.inline : trim(item.inline[x]) # <<>>

\* C8: under an active pet filter the pet data of an item comes from (a) its
\* inline pet fields, else (b) the pet-info endpoint, else (c) the title text,
\* a later source only when every earlier one gave nothing, and the filter
\* decides on the data so resolved.
C8_ResolutionOrder ==
    /\ rPc \in {"resolved", "done"} =>
         /\ rInfo.source \in {"inline", "endpoint", "text", "none"}
         /\ InlinePresent(rItem) <=> rInfo.source = "inline"
    /\ rPc = "done" => rKept = passesPetFilter(rInfo.info, rCtx.petAllowed, rCtx.petSizes)

-----------------------------------------------------------------------------
(* Claims about the bookmark button (checked under SpecButton)             *)
(***************************************************************************)
\* C25: for one bookmark button at most one add/remove store operation is in
\* flight at any time: a click that arrives before a previous toggle has
\* completed issues no store operation, whatever the timing of the clicks
\* relative to re-rendering.
C25_OneStoreOperationInFlight == Cardinality(StoreOpsInFlight) <= 1

\* C26: whenever no operation of the button is pending (neither the status
\* check nor a toggle), the displayed bookmarked state equals whether the
\* store holds a row for the pair, for every interleaving and every outcome
\* of the store calls.
C26_DisplayedEqualsStored ==
    (/\ kCheck = "done"
     /\ \A i \in 1..Len(kToggles) : kToggles[i].pc = "done"
     /\ kRender = kState)
        => kRender.isBookmarked = kRow

-----------------------------------------------------------------------------
(* Claims about the URL of the listing page (checked under SpecUrl)        *)
(***************************************************************************)
\* C28: starting from a URL in which a non-empty petSizes implies
\* petAllowed = true, every sequence of control actions leads to a URL that
\* still satisfies the implication.
C28_SizesImplyAllowed == SizesImplyAllowed(uTarget) /\ SizesImplyAllowed(uSeen)

\* a size was checked while petAllowed was off: the URL has both
C28_Witness ==
    /\ uChanges >= 1
    /\ ~uSeen.petAllowed /\ uSeen.petSizes = {}
    /\ uTarget.petSizes # {} /\ uTarget.petAllowed

\* C29: when two changes are made in succession the resulting URL reflects
\* both: it is the URL that results from applying each change to the result
\* of the one before, even if the later handler runs before the navigation
\* of the earlier one has taken effect.
C29_LaterChangeKeepsEarlier == uTarget = uIntent

-----------------------------------------------------------------------------
(* Claims about the initialisation of the map (checked under SpecMapInit)  *)
(***************************************************************************)
\* C30: for one mounted map component at most one map instance is ever
\* created, whichever of the script-loaded event, the 5-second timeout and
\* the 100 ms polling fire and in whatever order.
C30_AtMostOneMapInstance == nCreated <= 1

\* the polling created the map and the load event then called initializeMap
\* again: still one instance
C30_Witness ==
    /\ nInterval = "cleared" /\ nTimeout = "fired" /\ nEvents >= 1
    /\ nCalls >= 2 /\ nCreated = 1

-----------------------------------------------------------------------------
(* Claims about bookmarks (checked under SpecBookmark)                     *)

====
